---- MODULE Spec2Model ----
(***************************************************************************)
(* Violation detection and warning escalation of the moderation cog        *)
(* (src/cogs/moderation.py) over the warning store (src/warn_store.py).    *)
(*                                                                         *)
(* Handlers are coroutines: a handler runs without interruption from one   *)
(* await to the next, so every action below is the code between two        *)
(* suspension points of one handler.                                       *)
(***************************************************************************)
EXTENDS Integers, Sequences, FiniteSets, TLC

VARIABLES
    now,              \* time.monotonic(), whole seconds
    spam_buckets,     \* ModerationCog._spam_buckets: (guild, user) -> deque of timestamps
    spam_obs,         \* observation of the _is_spam_violation calls, per key
    utcnow,           \* wall clock (discord.utils.utcnow(), CURRENT_TIMESTAMP), minutes
    guild_settings,   \* table guild_settings: guild -> row
    settings_cache,   \* ModerationCog._settings_cache: guild -> (fetch time, settings)
    warnings,         \* table warnings: set of rows
    next_warning_id,  \* AUTO_INCREMENT of warnings.id
    infractions,      \* table infractions, in id order
    hs,               \* the handlers: locals and position of each coroutine
    event_obs         \* observation of the events handled so far

spam_vars == <<now, spam_buckets, spam_obs>>
store_vars == <<guild_settings, warnings, next_warning_id, infractions>>

vars == <<now, spam_buckets, spam_obs, utcnow, guild_settings, settings_cache,
          warnings, next_warning_id, infractions, hs, event_obs>>

----------------------------------------------------------------------------
(* Bounds *)

MaxTime == 2        \* the monotonic clock runs 0..MaxTime
MaxRawSpamMax == 3  \* configured automod_spam_max_messages range 1..MaxRawSpamMax
MaxRawInterval == 2 \* configured automod_spam_interval_seconds range 0..MaxRawInterval

Guilds == {"g1"}
Users == {"u1", "u2"}
Keys == Guilds \X Users

Max(a, b) == IF a >= b THEN a ELSE b
Min(a, b) == IF a <= b THEN a ELSE b

----------------------------------------------------------------------------
(* Settings rows: warn_store.DEFAULT_GUILD_SETTINGS and the guild_settings table *)

None == "none"
Null == <<>>          \* SQL NULL / Python None of an optional timestamp

DefaultTimeoutThreshold == 3
DefaultBanThreshold == 5
DefaultExpirationDays == 60
DefaultTimeoutDurationMinutes == 60
DefaultSpamMaxMessages == 5
DefaultSpamIntervalSeconds == 8
DefaultMentionLimit == 5

DEFAULT_GUILD_SETTINGS ==
    [mod_log_channel_id |-> Null,
     automod_log_channel_id |-> Null,
     warn_timeout_threshold |-> DefaultTimeoutThreshold,
     warn_ban_threshold |-> DefaultBanThreshold,
     warn_expiration_days |-> DefaultExpirationDays,
     warn_timeout_duration_minutes |-> DefaultTimeoutDurationMinutes,
     automod_enabled |-> TRUE,
     automod_anti_spam |-> TRUE,
     automod_anti_link |-> TRUE,
     automod_anti_mention_flood |-> TRUE,
     automod_spam_max_messages |-> DefaultSpamMaxMessages,
     automod_spam_interval_seconds |-> DefaultSpamIntervalSeconds,
     automod_mention_limit |-> DefaultMentionLimit,
     automod_bypass_role_ids |-> {}]

SETTINGS_CACHE_TTL == 30

NoCacheEntry == [cached |-> FALSE, at |-> 0, settings |-> DEFAULT_GUILD_SETTINGS]

\* mutant: an entry exactly SETTINGS_CACHE_TTL old is refetched
CacheFreshStrict(entry, t) == entry.cached /\ (t - entry.at) < SETTINGS_CACHE_TTL

\* "if cached and (now - cached[0]) <= self.SETTINGS_CACHE_TTL"
CacheFresh(entry, t) == entry.cached /\ (t - entry.at) <= SETTINGS_CACHE_TTL

----------------------------------------------------------------------------
(* SpamWindow: ModerationCog._is_spam_violation *)

SpamMaxFloor == 2
SpamIntervalFloor == 1

\* mutant: the configured limit is ignored
EffectiveMaxMessagesFloorOnly(raw_max) == SpamMaxFloor

\* max(2, int(settings["automod_spam_max_messages"]))
EffectiveMaxMessages(raw_max) == Max(SpamMaxFloor, raw_max)

\* mutant: the configured interval is used as it is
EffectiveIntervalUnclamped(raw_interval) == raw_interval

\* max(1, int(settings["automod_spam_interval_seconds"]))
EffectiveInterval(raw_interval) == Max(SpamIntervalFloor, raw_interval)

\* mutant: nothing is evicted
EvictAll(bucket, t, interval) == bucket

\* while bucket and now - bucket[0] > interval_seconds: bucket.popleft()
RECURSIVE EvictOld(_, _, _)
EvictOld(bucket, t, interval) ==
    IF bucket # <<>> /\ t - Head(bucket) > interval
    THEN EvictOld(Tail(bucket), t, interval)
    ELSE bucket

\* mutant: trips one message late
TrippedOffByOne(len, max_messages) == len > max_messages

\* the negation of "if len(bucket) < max_messages: return False"
Tripped(len, max_messages) == ~(len < max_messages)

\* mutant: a trip leaves the timestamps in the bucket
IsSpamViolationKeep(bucket, t, raw_max, raw_interval) ==
    LET max_messages == EffectiveMaxMessages(raw_max)
        interval_seconds == EffectiveInterval(raw_interval)
        appended == Append(EvictOld(bucket, t, interval_seconds), t)
    IN  [bucket |-> appended, violation |-> Tripped(Len(appended), max_messages)]

\* The whole call: the bucket it leaves and the value it returns.
IsSpamViolation(bucket, t, raw_max, raw_interval) ==
    LET max_messages == EffectiveMaxMessages(raw_max)
        interval_seconds == EffectiveInterval(raw_interval)
        appended == Append(EvictOld(bucket, t, interval_seconds), t)
    IN  IF Tripped(Len(appended), max_messages)
        THEN [bucket |-> <<>>, violation |-> TRUE]
        ELSE [bucket |-> appended, violation |-> FALSE]

\* Observation of one key. run_*: the calls since the bucket was last empty at
\* the start of a call, kept while they were made under the same effective
\* settings, number at most max_messages and lie within the interval of the
\* first one. events: the calls since the last trip that a window can still
\* reach; in_window, max, result: the last call.
NoSpamObs ==
    [run_len |-> 0, run_first |-> 0, run_last |-> 0, run_trips |-> 0,
     run_max |-> 0, run_interval |-> 0,
     events |-> <<>>, in_window |-> 0, max |-> 0, result |-> FALSE]

InWindow(events, t, interval) ==
    Cardinality({i \in 1..Len(events) : t - events[i] <= interval})

WidestInterval == EffectiveInterval(MaxRawInterval)

RECURSIVE Reachable(_, _)
Reachable(events, t) ==
    IF events # <<>> /\ t - Head(events) > WidestInterval
    THEN Reachable(Tail(events), t)
    ELSE events

ObserveRecord(obs, was_empty, t, raw_max, raw_interval, result) ==
    LET m == EffectiveMaxMessages(raw_max)
        iv == EffectiveInterval(raw_interval)
        evs == Append(obs.events, t)
        live == \/ was_empty
                \/ /\ obs.run_len >= 1 /\ obs.run_len < obs.run_max
                   /\ obs.run_max = m /\ obs.run_interval = iv
                   /\ t - obs.run_first <= iv
        last == [in_window |-> InWindow(evs, t, iv), max |-> m, result |-> result,
                 events |-> IF result THEN <<>> ELSE Reachable(evs, t)]
    IN  IF live
        THEN last @@
             [run_len |-> IF was_empty THEN 1 ELSE obs.run_len + 1,
              run_first |-> IF was_empty THEN t ELSE obs.run_first,
              run_last |-> t,
              run_trips |-> (IF was_empty THEN 0 ELSE obs.run_trips)
                            + (IF result THEN 1 ELSE 0),
              run_max |-> m,
              run_interval |-> iv]
        ELSE last @@
             [run_len |-> 0, run_first |-> 0, run_last |-> 0, run_trips |-> 0,
              run_max |-> 0, run_interval |-> 0]

\* The effect of one call on the bucket map (and on the observation).
RecordEffect(k, raw_max, raw_interval) ==
    LET r == IsSpamViolation(spam_buckets[k], now, raw_max, raw_interval)
    IN  /\ spam_buckets' = [spam_buckets EXCEPT ![k] = r.bucket]
        /\ spam_obs' = [spam_obs EXCEPT ![k] =
               ObserveRecord(@, spam_buckets[k] = <<>>, now, raw_max, raw_interval,
                             r.violation)]

\* One message of key k reaches the detector under the given spam settings.
Record(k, raw_max, raw_interval) ==
    /\ RecordEffect(k, raw_max, raw_interval)
        /\ UNCHANGED <<event_obs, now, utcnow, guild_settings, settings_cache, warnings,
                       next_warning_id, infractions, hs>>

----------------------------------------------------------------------------
(* Members and the role hierarchy, as the platform reports them when read *)

Handlers == {"h1", "h2"}
ExemptRole == "role_exempt"

RegularMember ==
    [administrator |-> FALSE, manage_guild |-> FALSE, roles |-> {},
     is_owner |-> FALSE, top_role |-> 0]

\* What a handler may find when it reads the target member: a regular member
\* below the bot, members at or above the bot's top role, a manager, an
\* administrator below and above the bot, the owner, a holder of a role.
MemberProfiles ==
    {RegularMember,
     [RegularMember EXCEPT !.top_role = 1],
     [RegularMember EXCEPT !.top_role = 2],
     [RegularMember EXCEPT !.manage_guild = TRUE],
     [RegularMember EXCEPT !.administrator = TRUE],
     [RegularMember EXCEPT !.administrator = TRUE, !.top_role = 2],
     [RegularMember EXCEPT !.administrator = TRUE, !.manage_guild = TRUE,
                           !.is_owner = TRUE, !.top_role = 2],
     [RegularMember EXCEPT !.roles = {ExemptRole}]}

\* guild.me: not cached, or the bot's member with its top role
BotViews == {[present |-> FALSE, top_role |-> 0], [present |-> TRUE, top_role |-> 1]}

\* ModerationCog._can_bot_moderate_member
CanBotModerateMember(me, target) ==
    IF ~me.present THEN FALSE
    ELSE IF target.is_owner THEN FALSE
    ELSE target.top_role < me.top_role

\* ModerationCog._can_moderate, the boolean of the pair it returns
CanModerate(me, actor, target, same_member) ==
    IF same_member THEN FALSE
    ELSE IF target.is_owner THEN FALSE
    ELSE IF ~actor.is_owner /\ target.top_role >= actor.top_role THEN FALSE
    ELSE IF ~me.present THEN FALSE
    ELSE IF target.top_role >= me.top_role THEN FALSE
    ELSE TRUE

\* mutant: the bypass roles are not looked at
IsAutomodBypassNoRoles(member, settings) ==
    member.administrator \/ member.manage_guild

\* ModerationCog._is_automod_bypass
IsAutomodBypass(member, settings) ==
    IF member.administrator \/ member.manage_guild THEN TRUE
    ELSE IF settings.automod_bypass_role_ids = {} THEN FALSE
    ELSE member.roles \cap settings.automod_bypass_role_ids # {}

\* Why a member is exempt, as the policy words it: administrative capability
\* (administrator or manage-guild permission) or one of the bypass roles.
BypassReason(member, settings) ==
    IF member.administrator THEN "administrator"
    ELSE IF member.manage_guild THEN "manage_guild"
    ELSE IF member.roles \cap settings.automod_bypass_role_ids # {} THEN "role"
    ELSE "no"

----------------------------------------------------------------------------
(* ViolationClassifier: the rule chain of ModerationCog.on_message *)

\* mutant: the mention rule is tried before the link rule
ClassifyMentionFirst(settings, member, has_link, mentions, bucket, t) ==
    LET mention_limit == Max(1, settings.automod_mention_limit)
        spam == IsSpamViolation(bucket, t, settings.automod_spam_max_messages,
                                settings.automod_spam_interval_seconds)
    IN  IF ~settings.automod_enabled THEN [action |-> None, recorded |-> FALSE]
        ELSE IF IsAutomodBypass(member, settings) THEN [action |-> None, recorded |-> FALSE]
        ELSE IF settings.automod_anti_mention_flood /\ mentions >= mention_limit
             THEN [action |-> "automod_mention_flood", recorded |-> FALSE]
        ELSE IF settings.automod_anti_link /\ has_link
             THEN [action |-> "automod_link", recorded |-> FALSE]
        ELSE IF settings.automod_anti_spam
             THEN [action |-> IF spam.violation THEN "automod_spam" ELSE None,
                   recorded |-> TRUE]
        ELSE [action |-> None, recorded |-> FALSE]

\* mutant: the detector is fed before the link and mention rules are tried
ClassifyFedFirst(settings, member, has_link, mentions, bucket, t) ==
    LET mention_limit == Max(1, settings.automod_mention_limit)
        spam == IsSpamViolation(bucket, t, settings.automod_spam_max_messages,
                                settings.automod_spam_interval_seconds)
    IN  IF ~settings.automod_enabled THEN [action |-> None, recorded |-> FALSE]
        ELSE IF IsAutomodBypass(member, settings) THEN [action |-> None, recorded |-> FALSE]
        ELSE IF settings.automod_anti_link /\ has_link
             THEN [action |-> "automod_link", recorded |-> settings.automod_anti_spam]
        ELSE IF settings.automod_anti_mention_flood /\ mentions >= mention_limit
             THEN [action |-> "automod_mention_flood",
                   recorded |-> settings.automod_anti_spam]
        ELSE IF settings.automod_anti_spam
             THEN [action |-> IF spam.violation THEN "automod_spam" ELSE None,
                   recorded |-> TRUE]
        ELSE [action |-> None, recorded |-> FALSE]

\* mutant: the detector is fed whether or not the spam rule is on
ClassifyAlwaysFed(settings, member, has_link, mentions, bucket, t) ==
    LET mention_limit == Max(1, settings.automod_mention_limit)
        spam == IsSpamViolation(bucket, t, settings.automod_spam_max_messages,
                                settings.automod_spam_interval_seconds)
    IN  IF ~settings.automod_enabled THEN [action |-> None, recorded |-> FALSE]
        ELSE IF IsAutomodBypass(member, settings) THEN [action |-> None, recorded |-> FALSE]
        ELSE IF settings.automod_anti_link /\ has_link
             THEN [action |-> "automod_link", recorded |-> FALSE]
        ELSE IF settings.automod_anti_mention_flood /\ mentions >= mention_limit
             THEN [action |-> "automod_mention_flood", recorded |-> FALSE]
        ELSE [action |-> IF settings.automod_anti_spam /\ spam.violation
                         THEN "automod_spam" ELSE None,
              recorded |-> TRUE]

\* The rule an event falls under (None when it passes), and whether the
\* chain reached the spam detector, which then recorded the message.
Classify(settings, member, has_link, mentions, bucket, t) ==
    LET mention_limit == Max(1, settings.automod_mention_limit)
        spam == IsSpamViolation(bucket, t, settings.automod_spam_max_messages,
                                settings.automod_spam_interval_seconds)
    IN  IF ~settings.automod_enabled THEN [action |-> None, recorded |-> FALSE]
        ELSE IF IsAutomodBypass(member, settings) THEN [action |-> None, recorded |-> FALSE]
        ELSE IF settings.automod_anti_link /\ has_link
             THEN [action |-> "automod_link", recorded |-> FALSE]
        ELSE IF settings.automod_anti_mention_flood /\ mentions >= mention_limit
             THEN [action |-> "automod_mention_flood", recorded |-> FALSE]
        ELSE IF settings.automod_anti_spam
             THEN [action |-> IF spam.violation THEN "automod_spam" ELSE None,
                   recorded |-> TRUE]
        ELSE [action |-> None, recorded |-> FALSE]

----------------------------------------------------------------------------
(* WarningLedger: the warnings table as WarnStore reads it *)

MinutesPerDay == 1440

\* mutant: zero days is an expiration like any other
WarningExpiresAtAlways(settings, wall) ==
    <<wall + settings.warn_expiration_days * MinutesPerDay>>

\* _register_warning: expires_at from warn_expiration_days
WarningExpiresAt(settings, wall) ==
    LET expiration_days == Max(0, settings.warn_expiration_days)
    IN  IF expiration_days > 0 THEN <<wall + expiration_days * MinutesPerDay>> ELSE Null

\* mutant: the user is not part of the WHERE clause
RowsOfGuild(g, u) == {w \in warnings : w.guild = g}

\* WHERE guild_id = %s AND user_id = %s
RowsOf(g, u) == {w \in warnings : w.guild = g /\ w.user = u}

\* mutant: a warning is still active at its expiration instant
IsActiveInclusive(w, wall) == w.expires_at = Null \/ w.expires_at[1] >= wall

\* expires_at IS NULL OR expires_at > CURRENT_TIMESTAMP
IsActive(w, wall) == w.expires_at = Null \/ w.expires_at[1] > wall

\* mutant: expired rows are left out of the total
CountWarningsActiveOnly(g, u) ==
    LET active == Cardinality({w \in RowsOf(g, u) : IsActive(w, utcnow)})
    IN  [total |-> active, active |-> active]

\* the COUNT(*) / SUM(...) select of add_warning and get_warnings
CountWarnings(g, u) ==
    [total |-> Cardinality(RowsOf(g, u)),
     active |-> Cardinality({w \in RowsOf(g, u) : IsActive(w, utcnow)})]

----------------------------------------------------------------------------
(* EscalationEngine: the decisions of ModerationCog._apply_warn_escalation *)

\* mutant: the ban check without its "> 0" gate
BanTriggeredUngated(active_warnings, ban_threshold) == active_warnings >= ban_threshold

\* "ban_threshold > 0 and active_warnings >= ban_threshold"
BanTriggered(active_warnings, ban_threshold) ==
    ban_threshold > 0 /\ active_warnings >= ban_threshold

\* mutant: the timeout starts one warning late
TimeoutTriggeredStrict(active_warnings, timeout_threshold) ==
    timeout_threshold > 0 /\ active_warnings > timeout_threshold

\* mutant: the timeout is due at the crossing of the threshold only
TimeoutTriggeredAtCrossing(active_warnings, timeout_threshold) ==
    timeout_threshold > 0 /\ active_warnings = timeout_threshold

\* "timeout_threshold > 0 and active_warnings >= timeout_threshold"
TimeoutTriggered(active_warnings, timeout_threshold) ==
    timeout_threshold > 0 /\ active_warnings >= timeout_threshold

\* mutant: the timeout check placed before the ban check
EscalationBranchTimeoutFirst(active_warnings, settings) ==
    IF TimeoutTriggered(active_warnings, settings.warn_timeout_threshold) THEN "timeout"
    ELSE IF BanTriggered(active_warnings, settings.warn_ban_threshold) THEN "ban"
    ELSE None

\* The order of the two checks: the first "if" returns on every path.
EscalationBranch(active_warnings, settings) ==
    IF BanTriggered(active_warnings, settings.warn_ban_threshold) THEN "ban"
    ELSE IF TimeoutTriggered(active_warnings, settings.warn_timeout_threshold) THEN "timeout"
    ELSE None

TimeoutCeilingMinutes == 40320

\* duration_minutes, then min(timedelta(minutes=...), timedelta(days=28))
TimeoutDelta(settings) ==
    LET duration_minutes ==
            Max(1, Min(settings.warn_timeout_duration_minutes, TimeoutCeilingMinutes))
    IN  Min(duration_minutes, 28 * MinutesPerDay)

\* mutant: the restriction is called whatever _can_bot_moderate_member says
EscalationPlanNoGate(active_warnings, settings, me, member) ==
    LET branch == EscalationBranch(active_warnings, settings)
    IN  IF branch = "ban" THEN [call |-> "ban", status |-> None]
        ELSE IF branch = "timeout"
        THEN IF member.administrator
             THEN [call |-> None, status |-> "timeout_skipped_admin"]
             ELSE [call |-> "timeout", status |-> None]
        ELSE [call |-> None, status |-> None]

\* mutant: administrators are timed out like everyone else
EscalationPlanAdminTimeout(active_warnings, settings, me, member) ==
    LET branch == EscalationBranch(active_warnings, settings)
    IN  IF branch = "ban"
        THEN IF ~CanBotModerateMember(me, member)
             THEN [call |-> None, status |-> "ban_no_hierarchy"]
             ELSE [call |-> "ban", status |-> None]
        ELSE IF branch = "timeout"
        THEN IF ~CanBotModerateMember(me, member)
             THEN [call |-> None, status |-> "timeout_no_hierarchy"]
             ELSE [call |-> "timeout", status |-> None]
        ELSE [call |-> None, status |-> None]

\* mutant: a ban that cannot be made falls back to the timeout
EscalationPlanFallback(active_warnings, settings, me, member) ==
    LET branch == EscalationBranch(active_warnings, settings)
        timeout_too == TimeoutTriggered(active_warnings, settings.warn_timeout_threshold)
    IN  IF branch = "ban"
        THEN IF ~CanBotModerateMember(me, member)
             THEN IF timeout_too
                  THEN [call |-> "timeout", status |-> None]
                  ELSE [call |-> None, status |-> "ban_no_hierarchy"]
             ELSE [call |-> "ban", status |-> None]
        ELSE IF branch = "timeout"
        THEN IF member.administrator
             THEN [call |-> None, status |-> "timeout_skipped_admin"]
             ELSE IF ~CanBotModerateMember(me, member)
             THEN [call |-> None, status |-> "timeout_no_hierarchy"]
             ELSE [call |-> "timeout", status |-> None]
        ELSE [call |-> None, status |-> None]

\* The code from the entry of _apply_warn_escalation to its first await: the
\* restriction call it is about to make (None when it returns at once) and
\* the status it returns in that case.
EscalationPlan(active_warnings, settings, me, member) ==
    LET branch == EscalationBranch(active_warnings, settings)
    IN  IF branch = "ban"
        THEN IF ~CanBotModerateMember(me, member)
             THEN [call |-> None, status |-> "ban_no_hierarchy"]
             ELSE [call |-> "ban", status |-> None]
        ELSE IF branch = "timeout"
        THEN IF member.administrator
             THEN [call |-> None, status |-> "timeout_skipped_admin"]
             ELSE IF ~CanBotModerateMember(me, member)
             THEN [call |-> None, status |-> "timeout_no_hierarchy"]
             ELSE [call |-> "timeout", status |-> None]
        ELSE [call |-> None, status |-> None]

----------------------------------------------------------------------------
(* Handlers: on_message ("msg"), /warn ("warn"), /clearwarnings ("clear"),
   /setwarnpolicy ("policy") *)

MaxRaceFaults == 1      \* failed calls in one behaviour of two handlers
MaxThreshold == 2       \* stored warn thresholds range 0..MaxThreshold
MaxInitWarnings == 2    \* warnings of u1 already in the ledger at the start
MaxMentions == 5        \* mentions carried by one message

\* Locals of one handler run. pc is the await the coroutine is suspended at.
\* add, evaluated, eval_active, calls, audit_*, sent, raised record what the
\* run did; target_admin and target_below_bot what the platform said of the
\* member when _apply_warn_escalation ran; author_bypass why the author of a
\* message was exempt ("no" when not); created the wall clock read by
\* _register_warning; updates the options given to /setwarnpolicy (Null for
\* an option left out) or to the store's update_guild_settings, unknown_field
\* whether that call also names a field SETTINGS_FIELD_TYPES does not have;
\* sent holds the sends attempted.
IdleHandler ==
    [pc |-> "idle", kind |-> None, guild |-> "g1", user |-> "u1",
     settings |-> DEFAULT_GUILD_SETTINGS, t0 |-> 0,
     action |-> None, deleted |-> "unasked",
     expires_at |-> Null, warning_id |-> 0, total |-> 0, active |-> 0,
     until |-> Null, escalation |-> None, removed |-> 0,
     add |-> None, evaluated |-> "no", eval_active |-> 0,
     target_admin |-> FALSE, target_below_bot |-> FALSE, author_bypass |-> "no",
     created |-> 0,
     updates |-> [warn_timeout_threshold |-> <<>>, warn_ban_threshold |-> <<>>,
                  warn_expiration_days |-> <<>>],
     unknown_field |-> FALSE,
     calls |-> <<>>, audit_logged |-> {}, audit_failed |-> {},
     sent |-> {}, raised |-> FALSE]

NewRun(kind, g, u) == [IdleHandler EXCEPT !.kind = kind, !.guild = g, !.user = u]

\* The member an event is about. Handlers and users are interchangeable but
\* for the warnings u1 starts with, so the first handler is given u1 and the
\* second either user.
Targets(h) == IF h = "h1" THEN {"u1"} ELSE Users

\* What has been seen of the events so far: per key the messages that reached
\* the spam detector and the warnings inserted since the key's ledger was last
\* cleared; per warning on record the expiration policy and the wall clock it
\* was made under; the last message screened on its own.
NoScreenObs ==
    [valid |-> FALSE, key |-> <<"g1", "u1">>, enabled |-> FALSE, bypass |-> "no",
     spam_on |-> FALSE, matches |-> {}, action |-> None, wrote |-> FALSE]

NoEventObs ==
    [msgs |-> [k \in Keys |-> 0],
     inserted |-> [k \in Keys |-> 0],
     made |-> {},
     screen |-> NoScreenObs]

\* Each handler of Handlers runs one event.
CanStart(h) == hs[h].pc = "idle"

\* mutant: a failed audit write is raised to the caller
AfterSafeLogReraise(ok, next) == IF ok THEN next ELSE "done"

\* _safe_log_infraction: "except Exception" logs locally and returns, so the
\* caller goes on at its next statement whether the write succeeded or not.
AfterSafeLog(ok, next) == next

\* mutant: a failed removal ends the event
AfterDeleteAbort(ok) == IF ok THEN "log_rule" ELSE "done"

\* on_message: "except (discord.Forbidden, discord.HTTPException)" around
\* message.delete() only logs; the rule audit entry is written next.
AfterDelete(ok) == "log_rule"

\* mutant: after the error of add_warning the handler still notifies
AfterAddWarningErrorNotify(kind) == IF kind = "msg" THEN "notice" ELSE "modlog"

\* mutant: the error of add_warning is swallowed and the flow goes on
AfterAddWarningErrorIgnored(kind) == "log_warn"

\* add_warning raised: _register_warning has no handler, on_message and warn
\* catch the exception around _register_warning and return.
AfterAddWarningError(kind) == "done"

\* where a handler goes on once _register_warning has returned
AfterRegister(kind) == IF kind = "msg" THEN "notice" ELSE "modlog"

\* mutant: a rejected ban falls back to the timeout
AfterBanRejectedFallback(kind) == "timeout_call"

\* "except (discord.Forbidden, discord.HTTPException): return ..." around member.ban
AfterBanRejected(kind) == AfterRegister(kind)

\* mutant: a clear that removed nothing is logged and announced like any other
AfterClearAlwaysLog(removed) == "log_clear"

\* clearwarnings: "if removed == 0:" replies and returns
AfterClear(removed) == IF removed = 0 THEN "done" ELSE "log_clear"

Infraction(rec, action, related, expires_at) ==
    [action |-> action, guild |-> rec.guild, user |-> rec.user,
     related_warning_id |-> related, expires_at |-> expires_at]

\* the handler's record of one _safe_log_infraction call
Logged(rec, action, ok) ==
    [rec EXCEPT !.audit_logged = IF ok THEN @ \cup {action} ELSE @,
                !.audit_failed = IF ok THEN @ ELSE @ \cup {action}]

\* WarnStore.log_infraction inside _safe_log_infraction
LogInfraction(entry, ok) ==
    infractions' = IF ok THEN Append(infractions, entry) ELSE infractions

\* _register_warning up to "await add_warning(...)"
EnterRegister(rec, settings) ==
    [rec EXCEPT !.pc = "add_insert", !.settings = settings,
                !.expires_at = WarningExpiresAt(settings, utcnow),
                !.created = utcnow,
                !.add = "invoked"]

\* on_message from the settings to "await message.delete()": the enabled and
\* bypass checks and the rule chain, for one message of the member.
MsgClassify(h, rec, settings) ==
    LET k == <<rec.guild, rec.user>>
        outcomes == {Classify(settings, member, has_link, mentions, spam_buckets[k], now)
                        @@ [bypass |-> BypassReason(member, settings)] :
                        member \in MemberProfiles, has_link \in BOOLEAN,
                        mentions \in 0..MaxMentions}
    IN  \E c \in outcomes :
            /\ IF c.recorded
               THEN RecordEffect(k, settings.automod_spam_max_messages,
                                 settings.automod_spam_interval_seconds)
               ELSE UNCHANGED <<spam_buckets, spam_obs>>
            /\ event_obs' = [event_obs EXCEPT !.msgs[k] = IF c.recorded THEN @ + 1 ELSE @]
            /\ hs' = [hs EXCEPT ![h] =
                   IF c.action = None
                   THEN [rec EXCEPT !.pc = "done", !.settings = settings,
                                    !.author_bypass = c.bypass]
                   ELSE [rec EXCEPT !.pc = "delete", !.settings = settings,
                                    !.action = c.action, !.author_bypass = c.bypass]]

\* on_message, settings served from the cache
MsgBeginCached(h) ==
    /\ CanStart(h)
    /\ \E g \in Guilds, u \in Targets(h) :
           /\ CacheFresh(settings_cache[g], now)
           /\ MsgClassify(h, NewRun("msg", g, u), settings_cache[g].settings)
    /\ UNCHANGED <<now, utcnow, guild_settings, settings_cache, warnings,
                   next_warning_id, infractions>>

\* on_message of a direct message, a bot or a non-member: returns at once
MsgIgnored(h) ==
    /\ CanStart(h)
    /\ \E g \in Guilds, u \in Targets(h) :
           hs' = [hs EXCEPT ![h] = [NewRun("msg", g, u) EXCEPT !.pc = "done"]]
    /\ UNCHANGED <<event_obs, now, spam_buckets, spam_obs, utcnow, guild_settings, settings_cache,
                   warnings, next_warning_id, infractions>>

\* _get_guild_settings on a missing or stale entry: "now" is taken, then the
\* store is awaited (any of the three handlers)
BeginFetch(h, kind) ==
    /\ CanStart(h)
    /\ \E g \in Guilds, u \in Targets(h) :
           /\ ~CacheFresh(settings_cache[g], now)
           /\ hs' = [hs EXCEPT ![h] =
                  [NewRun(kind, g, u) EXCEPT !.pc = "fetch_settings", !.t0 = now]]
    /\ UNCHANGED <<event_obs, now, spam_buckets, spam_obs, utcnow, guild_settings, settings_cache,
                   warnings, next_warning_id, infractions>>

MsgBeginFetch(h) == BeginFetch(h, "msg")

\* the store answered: the entry is written with the time taken before the
\* await, and on_message goes on to the rule chain
MsgFetched(h) ==
    /\ hs[h].pc = "fetch_settings" /\ hs[h].kind = "msg"
    /\ LET g == hs[h].guild
           settings == guild_settings[g]
       IN  /\ settings_cache' = [settings_cache EXCEPT ![g] =
                  [cached |-> TRUE, at |-> hs[h].t0, settings |-> settings]]
           /\ MsgClassify(h, hs[h], settings)
    /\ UNCHANGED <<now, utcnow, guild_settings, warnings, next_warning_id,
                   infractions>>

\* the store raised: on_message logs and returns, the commands fail
FetchFailed(h) ==
    /\ hs[h].pc = "fetch_settings"
    /\ hs' = [hs EXCEPT ![h].pc = "done", ![h].raised = TRUE]
    /\ UNCHANGED <<event_obs, now, spam_buckets, spam_obs, utcnow, guild_settings, settings_cache,
                   warnings, next_warning_id, infractions>>

\* await message.delete()
MsgDelete(h) ==
    /\ hs[h].pc = "delete"
    /\ \E ok \in BOOLEAN :
           hs' = [hs EXCEPT ![h].deleted = IF ok THEN "yes" ELSE "no",
                            ![h].pc = AfterDelete(ok)]
    /\ UNCHANGED <<event_obs, now, spam_buckets, spam_obs, utcnow, guild_settings, settings_cache,
                   warnings, next_warning_id, infractions>>

\* the rule audit entry, then _register_warning up to add_warning
MsgLogRule(h) ==
    /\ hs[h].pc = "log_rule"
    /\ \E ok \in BOOLEAN :
           LET rec == Logged(hs[h], hs[h].action, ok)
               next == AfterSafeLog(ok, "add_insert")
           IN  /\ LogInfraction(Infraction(rec, rec.action, 0, Null), ok)
               /\ hs' = [hs EXCEPT ![h] =
                      IF next = "add_insert" THEN EnterRegister(rec, rec.settings)
                      ELSE [rec EXCEPT !.pc = next]]
    /\ UNCHANGED <<event_obs, now, spam_buckets, spam_obs, utcnow, guild_settings, settings_cache,
                   warnings, next_warning_id>>

\* the checks of a command fail for some moderator and target
CommandRefused(kind) ==
    \E me \in BotViews, actor \in MemberProfiles, target \in MemberProfiles,
       same_member \in BOOLEAN, blank \in BOOLEAN :
        ~CanModerate(me, actor, target, same_member) \/ (kind = "warn" /\ blank)

\* the checks of a command pass for some moderator and target
CommandAllowed ==
    \E me \in BotViews, actor \in MemberProfiles, target \in MemberProfiles,
       same_member \in BOOLEAN :
        CanModerate(me, actor, target, same_member)

\* /warn: the guild, hierarchy and reason checks, then the settings (cached)
\* and _register_warning up to add_warning
WarnBeginCached(h) ==
    /\ CanStart(h)
    /\ CommandAllowed = TRUE
    /\ \E g \in Guilds, u \in Targets(h) :
           /\ CacheFresh(settings_cache[g], now)
           /\ hs' = [hs EXCEPT ![h] =
                  EnterRegister([NewRun("warn", g, u) EXCEPT !.action = "manual_warn"],
                                settings_cache[g].settings)]
    /\ UNCHANGED <<event_obs, now, spam_buckets, spam_obs, utcnow, guild_settings, settings_cache,
                   warnings, next_warning_id, infractions>>

\* /warn or /clearwarnings refused: not in a guild, _can_moderate says no, or
\* (for /warn) the reason is blank
CommandDenied(h, kind) ==
    /\ CanStart(h)
    /\ CommandRefused(kind) = TRUE
    /\ \E g \in Guilds, u \in Targets(h) :
           hs' = [hs EXCEPT ![h] =
                  [NewRun(kind, g, u) EXCEPT !.pc = "done", !.sent = {"denied"}]]
    /\ UNCHANGED <<event_obs, now, spam_buckets, spam_obs, utcnow, guild_settings, settings_cache,
                   warnings, next_warning_id, infractions>>

WarnDenied(h) == CommandDenied(h, "warn")

WarnBeginFetch(h) == CommandAllowed = TRUE /\ BeginFetch(h, "warn")

WarnFetched(h) ==
    /\ hs[h].pc = "fetch_settings" /\ hs[h].kind = "warn"
    /\ LET g == hs[h].guild
           settings == guild_settings[g]
       IN  /\ settings_cache' = [settings_cache EXCEPT ![g] =
                  [cached |-> TRUE, at |-> hs[h].t0, settings |-> settings]]
           /\ hs' = [hs EXCEPT ![h] =
                  EnterRegister([hs[h] EXCEPT !.action = "manual_warn"], settings)]
    /\ UNCHANGED <<event_obs, now, spam_buckets, spam_obs, utcnow, guild_settings, warnings,
                   next_warning_id, infractions>>

\* add_warning: the INSERT (or acquiring the connection for it)
AddInsert(h) ==
    /\ hs[h].pc = "add_insert"
    /\ \E ok \in BOOLEAN :
           IF ok
           THEN /\ warnings' = warnings \cup
                       {[id |-> next_warning_id, guild |-> hs[h].guild,
                         user |-> hs[h].user, expires_at |-> hs[h].expires_at]}
                /\ next_warning_id' = next_warning_id + 1
                /\ hs' = [hs EXCEPT ![h].warning_id = next_warning_id,
                                    ![h].add = "inserted", ![h].pc = "add_count"]
                /\ event_obs' = [event_obs EXCEPT
                       !.inserted[<<hs[h].guild, hs[h].user>>] = @ + 1,
                       !.made = @ \cup {[id |-> next_warning_id,
                                         days |-> hs[h].settings.warn_expiration_days,
                                         at |-> hs[h].created]}]
           ELSE /\ hs' = [hs EXCEPT ![h].add = "failed", ![h].raised = TRUE,
                                    ![h].pc = AfterAddWarningError(hs[h].kind)]
                /\ UNCHANGED <<warnings, next_warning_id, event_obs>>
    /\ UNCHANGED <<now, spam_buckets, spam_obs, utcnow, guild_settings, settings_cache,
                   infractions>>

\* add_warning: the COUNT select on the same connection, then the return
AddCount(h) ==
    /\ hs[h].pc = "add_count"
    /\ \E ok \in BOOLEAN :
           LET n == CountWarnings(hs[h].guild, hs[h].user)
           IN  hs' = IF ok
                     THEN [hs EXCEPT ![h].total = n.total, ![h].active = n.active,
                                     ![h].add = "ok", ![h].pc = "log_warn"]
                     ELSE [hs EXCEPT ![h].add = "failed", ![h].raised = TRUE,
                                     ![h].pc = AfterAddWarningError(hs[h].kind)]
    /\ UNCHANGED <<event_obs, now, spam_buckets, spam_obs, utcnow, guild_settings, settings_cache,
                   warnings, next_warning_id, infractions>>

\* _register_warning: the 'warn' audit entry, then _apply_warn_escalation up to
\* its first await (or to its return, when it makes no call)
LogWarn(h) ==
    /\ hs[h].pc = "log_warn"
    /\ \E ok \in BOOLEAN :
           LET rec == Logged(hs[h], "warn", ok)
               next == AfterSafeLog(ok, "escalate")
               Escalate(me, member) ==
                   LET plan == EscalationPlan(rec.active, rec.settings, me, member)
                       seen == [rec EXCEPT
                                   !.evaluated = "running",
                                   !.eval_active = rec.active,
                                   !.target_admin = member.administrator,
                                   !.target_below_bot = CanBotModerateMember(me, member)]
                   IN  IF plan.call = "ban" THEN [seen EXCEPT !.pc = "ban_call"]
                       ELSE IF plan.call = "timeout"
                       THEN [seen EXCEPT !.pc = "timeout_call",
                                         !.until = <<utcnow + TimeoutDelta(rec.settings)>>]
                       ELSE [seen EXCEPT !.evaluated = "returned",
                                         !.escalation = plan.status,
                                         !.pc = AfterRegister(rec.kind)]
               results == IF next # "escalate" THEN {[rec EXCEPT !.pc = next]}
                          ELSE {Escalate(me, member) :
                                   me \in BotViews, member \in MemberProfiles}
           IN  /\ LogInfraction(Infraction(rec, "warn", rec.warning_id, rec.expires_at), ok)
               /\ \E r \in results : hs' = [hs EXCEPT ![h] = r]
    /\ UNCHANGED <<event_obs, now, spam_buckets, spam_obs, utcnow, guild_settings, settings_cache,
                   warnings, next_warning_id>>

\* How member.ban / member.edit can end: done, discord.Forbidden,
\* discord.HTTPException, or an error of the connection (OSError,
\* asyncio.TimeoutError), which is neither of the two.
CallResults == {"ok", "forbidden", "http_error", "connection_error"}

\* the exception classes that the handlers around member.ban and member.edit
\* name: "except (discord.Forbidden, discord.HTTPException):"
CaughtByEscalation(result) == result \in {"forbidden", "http_error"}

\* An exception that _apply_warn_escalation does not catch leaves it and
\* _register_warning; on_message and warn catch it around _register_warning.
EscalationRaised(rec) ==
    [rec EXCEPT !.evaluated = "raised", !.raised = TRUE,
                !.pc = AfterAddWarningError(rec.kind)]

\* mutant: the ban is logged whether it was made or rejected
BanCallLogAlways(h) ==
    /\ hs[h].pc = "ban_call"
    /\ \E result \in CallResults :
           LET rec == [hs[h] EXCEPT !.calls = Append(@, [kind |-> "ban", ok |-> result = "ok"])]
           IN  hs' = [hs EXCEPT ![h] =
                   IF ~CaughtByEscalation(result) /\ result # "ok" THEN EscalationRaised(rec)
                   ELSE [rec EXCEPT !.pc = "log_ban"]]
    /\ UNCHANGED <<event_obs, now, spam_buckets, spam_obs, utcnow, guild_settings, settings_cache,
                   warnings, next_warning_id, infractions>>

\* mutant: a rejected ban takes the warning back
BanCallRollback(h) ==
    /\ hs[h].pc = "ban_call"
    /\ \E result \in CallResults :
           LET rec == [hs[h] EXCEPT !.calls = Append(@, [kind |-> "ban", ok |-> result = "ok"])]
           IN  /\ hs' = [hs EXCEPT ![h] =
                      IF result = "ok" THEN [rec EXCEPT !.pc = "log_ban"]
                      ELSE IF ~CaughtByEscalation(result) THEN EscalationRaised(rec)
                      ELSE [rec EXCEPT !.evaluated = "returned",
                                       !.escalation = "ban_failed",
                                       !.pc = AfterBanRejected(rec.kind)]]
               /\ warnings' = IF result = "ok" THEN warnings
                              ELSE {w \in warnings : w.id # rec.warning_id}
    /\ UNCHANGED <<event_obs, now, spam_buckets, spam_obs, utcnow, guild_settings, settings_cache,
                   next_warning_id, infractions>>

\* await member.ban(...)
BanCall(h) ==
    /\ hs[h].pc = "ban_call"
    /\ \E result \in CallResults :
           LET rec == [hs[h] EXCEPT !.calls = Append(@, [kind |-> "ban", ok |-> result = "ok"])]
           IN  hs' = [hs EXCEPT ![h] =
                   IF result = "ok" THEN [rec EXCEPT !.pc = "log_ban"]
                   ELSE IF ~CaughtByEscalation(result) THEN EscalationRaised(rec)
                   ELSE [rec EXCEPT !.evaluated = "returned",
                                    !.escalation = "ban_failed",
                                    !.pc = AfterBanRejected(rec.kind)]]
    /\ UNCHANGED <<event_obs, now, spam_buckets, spam_obs, utcnow, guild_settings, settings_cache,
                   warnings, next_warning_id, infractions>>

\* the 'auto_ban_warns' audit entry, then the return of the status
LogBan(h) ==
    /\ hs[h].pc = "log_ban"
    /\ \E ok \in BOOLEAN :
           LET rec == Logged(hs[h], "auto_ban_warns", ok)
               next == AfterSafeLog(ok, AfterRegister(rec.kind))
           IN  /\ LogInfraction(Infraction(rec, "auto_ban_warns", 0, Null), ok)
               /\ hs' = [hs EXCEPT ![h] =
                      [rec EXCEPT !.evaluated = "returned",
                                  !.escalation = "ban_applied", !.pc = next]]
    /\ UNCHANGED <<event_obs, now, spam_buckets, spam_obs, utcnow, guild_settings, settings_cache,
                   warnings, next_warning_id>>

\* await member.edit(timed_out_until=...)
TimeoutCall(h) ==
    /\ hs[h].pc = "timeout_call"
    /\ \E result \in CallResults :
           LET rec == [hs[h] EXCEPT
                          !.calls = Append(@, [kind |-> "timeout", ok |-> result = "ok"])]
           IN  hs' = [hs EXCEPT ![h] =
                   IF result = "ok" THEN [rec EXCEPT !.pc = "log_timeout"]
                   ELSE IF ~CaughtByEscalation(result) THEN EscalationRaised(rec)
                   ELSE [rec EXCEPT !.evaluated = "returned",
                                    !.escalation = "timeout_failed",
                                    !.pc = AfterRegister(rec.kind)]]
    /\ UNCHANGED <<event_obs, now, spam_buckets, spam_obs, utcnow, guild_settings, settings_cache,
                   warnings, next_warning_id, infractions>>

\* the 'auto_timeout_warns' audit entry, then the return of the status
LogTimeout(h) ==
    /\ hs[h].pc = "log_timeout"
    /\ \E ok \in BOOLEAN :
           LET rec == Logged(hs[h], "auto_timeout_warns", ok)
               next == AfterSafeLog(ok, AfterRegister(rec.kind))
           IN  /\ LogInfraction(Infraction(rec, "auto_timeout_warns", 0, rec.until), ok)
               /\ hs' = [hs EXCEPT ![h] =
                      [rec EXCEPT !.evaluated = "returned",
                                  !.escalation = "timeout_applied", !.pc = next]]
    /\ UNCHANGED <<event_obs, now, spam_buckets, spam_obs, utcnow, guild_settings, settings_cache,
                   warnings, next_warning_id>>

\* on_message: the short notice in the channel ("except ...: pass")
MsgNotice(h) ==
    /\ hs[h].pc = "notice"
    /\ \E delivered \in BOOLEAN :
           hs' = [hs EXCEPT ![h].sent = @ \cup {"notice"}, ![h].pc = "modlog"]
    /\ UNCHANGED <<event_obs, now, spam_buckets, spam_obs, utcnow, guild_settings, settings_cache,
                   warnings, next_warning_id, infractions>>

\* _send_modlog: the channel the settings name, if any
ModlogChannel(settings, automod) ==
    IF automod /\ settings.automod_log_channel_id # Null
    THEN settings.automod_log_channel_id
    ELSE settings.mod_log_channel_id

\* _send_modlog, then what is left of the handler: nothing for on_message,
\* the reply to the interaction for the commands
SendModlog(h) ==
    /\ hs[h].pc = "modlog"
    /\ \E delivered \in BOOLEAN :
           LET channel == ModlogChannel(hs[h].settings, hs[h].kind = "msg")
               posted == IF channel # Null THEN {"modlog"} ELSE {}
               reply == IF hs[h].kind = "msg" THEN {} ELSE {"reply"}
           IN  hs' = [hs EXCEPT ![h].sent = @ \cup posted \cup reply, ![h].pc = "done"]
    /\ UNCHANGED <<event_obs, now, spam_buckets, spam_obs, utcnow, guild_settings, settings_cache,
                   warnings, next_warning_id, infractions>>

\* /clearwarnings: the checks, then "await clear_warnings(...)"
ClearBegin(h) ==
    /\ CanStart(h)
    /\ CommandAllowed = TRUE
    /\ \E g \in Guilds, u \in Targets(h) :
           hs' = [hs EXCEPT ![h] = [NewRun("clear", g, u) EXCEPT !.pc = "clear_delete"]]
    /\ UNCHANGED <<event_obs, now, spam_buckets, spam_obs, utcnow, guild_settings, settings_cache,
                   warnings, next_warning_id, infractions>>

ClearDenied(h) == CommandDenied(h, "clear")

\* mutant: the DELETE takes the audit entries of the removed rows with it
ClearDeleteCascade(h) ==
    /\ hs[h].pc = "clear_delete"
    /\ \E ok \in BOOLEAN :
           LET rows == RowsOf(hs[h].guild, hs[h].user)
               removed == Cardinality(rows)
               Kept(e) == \A w \in rows : e.related_warning_id # w.id
           IN  IF ok
               THEN /\ warnings' = warnings \ rows
                    /\ infractions' = SelectSeq(infractions, Kept)
                    /\ hs' = [hs EXCEPT ![h].removed = removed,
                                        ![h].sent = IF removed = 0 THEN {"reply"} ELSE {},
                                        ![h].pc = AfterClear(removed)]
                    /\ event_obs' = [event_obs EXCEPT
                           !.inserted[<<hs[h].guild, hs[h].user>>] = 0,
                           !.made = {m \in @ : \E w \in warnings \ rows : w.id = m.id}]
               ELSE /\ UNCHANGED <<warnings, event_obs, infractions>>
                    /\ hs' = [hs EXCEPT ![h].raised = TRUE, ![h].sent = {"reply"},
                                        ![h].pc = "done"]
    /\ UNCHANGED <<now, spam_buckets, spam_obs, utcnow, guild_settings, settings_cache,
                   next_warning_id>>

\* WarnStore.clear_warnings: the DELETE and its row count; zero rows end the
\* command with a reply only
ClearDelete(h) ==
    /\ hs[h].pc = "clear_delete"
    /\ \E ok \in BOOLEAN :
           LET rows == RowsOf(hs[h].guild, hs[h].user)
               removed == Cardinality(rows)
           IN  IF ok
               THEN /\ warnings' = warnings \ rows
                    /\ hs' = [hs EXCEPT ![h].removed = removed,
                                        ![h].sent = IF removed = 0 THEN {"reply"} ELSE {},
                                        ![h].pc = AfterClear(removed)]
                    /\ event_obs' = [event_obs EXCEPT
                           !.inserted[<<hs[h].guild, hs[h].user>>] = 0,
                           !.made = {m \in @ : \E w \in warnings \ rows : w.id = m.id}]
               ELSE /\ UNCHANGED <<warnings, event_obs>>
                    /\ hs' = [hs EXCEPT ![h].raised = TRUE, ![h].sent = {"reply"},
                                        ![h].pc = "done"]
    /\ UNCHANGED <<now, spam_buckets, spam_obs, utcnow, guild_settings, settings_cache,
                   next_warning_id, infractions>>

\* the 'clearwarnings' audit entry, then _get_guild_settings for the mod-log
ClearLog(h) ==
    /\ hs[h].pc = "log_clear"
    /\ \E ok \in BOOLEAN :
           LET rec == Logged(hs[h], "clearwarnings", ok)
               next == AfterSafeLog(ok, "settings")
               entry == settings_cache[rec.guild]
           IN  /\ LogInfraction(Infraction(rec, "clearwarnings", 0, Null), ok)
               /\ hs' = [hs EXCEPT ![h] =
                      IF next # "settings" THEN [rec EXCEPT !.pc = next]
                      ELSE IF CacheFresh(entry, now)
                      THEN [rec EXCEPT !.settings = entry.settings, !.pc = "modlog"]
                      ELSE [rec EXCEPT !.t0 = now, !.pc = "fetch_settings"]]
    /\ UNCHANGED <<event_obs, now, spam_buckets, spam_obs, utcnow, guild_settings, settings_cache,
                   warnings, next_warning_id>>

ClearFetched(h) ==
    /\ hs[h].pc = "fetch_settings" /\ hs[h].kind = "clear"
    /\ LET g == hs[h].guild
           settings == guild_settings[g]
       IN  /\ settings_cache' = [settings_cache EXCEPT ![g] =
                  [cached |-> TRUE, at |-> hs[h].t0, settings |-> settings]]
           /\ hs' = [hs EXCEPT ![h].settings = settings, ![h].pc = "modlog"]
    /\ UNCHANGED <<event_obs, now, spam_buckets, spam_obs, utcnow, guild_settings, warnings,
                   next_warning_id, infractions>>

----------------------------------------------------------------------------
(* /setwarnpolicy *)

MaxExpirationDays == 1   \* warn_expiration_days given or stored range 0..MaxExpirationDays

Given(values) == {Null} \cup {<<v>> : v \in values}

\* The options of one /setwarnpolicy call; timeout_duration_minutes is left out
\* of every call.
PolicyOptions ==
    [warn_timeout_threshold : Given(0..MaxThreshold),
     warn_ban_threshold : Given(0..MaxThreshold),
     warn_expiration_days : Given(0..MaxExpirationDays)]

NoOptions == IdleHandler.updates

\* mutant: the thresholds are written unchecked
PolicyAcceptedAlways(final_timeout, final_ban) == TRUE

\* /setwarnpolicy refuses "final_timeout > 0 and final_ban > 0 and
\* final_ban < final_timeout"
PolicyAccepted(final_timeout, final_ban) ==
    ~(final_timeout > 0 /\ final_ban > 0 /\ final_ban < final_timeout)

\* "x if x is not None else current[...]"
Final(option, current) == IF option # Null THEN option[1] ELSE current

\* setwarnpolicy from "current" to its second await: the check of the two
\* final thresholds, then the updates handed to _update_guild_settings
PolicyCheck(rec, current) ==
    LET final_timeout == Final(rec.updates.warn_timeout_threshold,
                               current.warn_timeout_threshold)
        final_ban == Final(rec.updates.warn_ban_threshold, current.warn_ban_threshold)
    IN  IF ~PolicyAccepted(final_timeout, final_ban)
        THEN [rec EXCEPT !.settings = current, !.sent = {"rejected"}, !.pc = "done"]
        ELSE [rec EXCEPT !.settings = current, !.pc = "policy_update"]

\* /setwarnpolicy outside a guild or with no option: a reply, nothing else
PolicyEmpty(h) ==
    /\ CanStart(h)
    /\ \E g \in Guilds :
           hs' = [hs EXCEPT ![h] =
                  [NewRun("policy", g, "u1") EXCEPT !.sent = {"reply"}, !.pc = "done"]]
    /\ UNCHANGED <<event_obs, now, spam_buckets, spam_obs, utcnow, guild_settings, settings_cache,
                   warnings, next_warning_id, infractions>>

\* /setwarnpolicy, current settings served from the cache
PolicyBeginCached(h) ==
    /\ CanStart(h)
    /\ \E g \in Guilds, options \in PolicyOptions \ {NoOptions} :
           /\ CacheFresh(settings_cache[g], now)
           /\ hs' = [hs EXCEPT ![h] =
                  PolicyCheck([NewRun("policy", g, "u1") EXCEPT !.updates = options],
                              settings_cache[g].settings)]
    /\ UNCHANGED <<event_obs, now, spam_buckets, spam_obs, utcnow, guild_settings, settings_cache,
                   warnings, next_warning_id, infractions>>

\* /setwarnpolicy, current settings awaited from the store
PolicyBeginFetch(h) ==
    /\ CanStart(h)
    /\ \E g \in Guilds, options \in PolicyOptions \ {NoOptions} :
           /\ ~CacheFresh(settings_cache[g], now)
           /\ hs' = [hs EXCEPT ![h] =
                  [NewRun("policy", g, "u1") EXCEPT !.updates = options, !.t0 = now,
                                                    !.pc = "fetch_settings"]]
    /\ UNCHANGED <<event_obs, now, spam_buckets, spam_obs, utcnow, guild_settings, settings_cache,
                   warnings, next_warning_id, infractions>>

PolicyFetched(h) ==
    /\ hs[h].pc = "fetch_settings" /\ hs[h].kind = "policy"
    /\ LET g == hs[h].guild
           settings == guild_settings[g]
       IN  /\ settings_cache' = [settings_cache EXCEPT ![g] =
                  [cached |-> TRUE, at |-> hs[h].t0, settings |-> settings]]
           /\ hs' = [hs EXCEPT ![h] = PolicyCheck(hs[h], settings)]
    /\ UNCHANGED <<event_obs, now, spam_buckets, spam_obs, utcnow, guild_settings, warnings,
                   next_warning_id, infractions>>

\* "UPDATE guild_settings SET <the given fields> WHERE guild_id = %s"
ApplyUpdates(row, updates) ==
    [row EXCEPT
        !.warn_timeout_threshold = Final(updates.warn_timeout_threshold, @),
        !.warn_ban_threshold = Final(updates.warn_ban_threshold, @),
        !.warn_expiration_days = Final(updates.warn_expiration_days, @)]

\* WarnStore.update_guild_settings: ensure_guild_settings and the UPDATE; a
\* failure ends the command with a reply
PolicyUpdate(h) ==
    /\ hs[h].pc = "policy_update"
    /\ \E ok \in BOOLEAN :
           IF ok
           THEN /\ guild_settings' = [guild_settings EXCEPT ![hs[h].guild] =
                       ApplyUpdates(@, hs[h].updates)]
                /\ hs' = [hs EXCEPT ![h].pc = "policy_select"]
           ELSE /\ UNCHANGED guild_settings
                /\ hs' = [hs EXCEPT ![h].raised = TRUE, ![h].sent = {"reply"},
                                    ![h].pc = "done"]
    /\ UNCHANGED <<event_obs, now, spam_buckets, spam_obs, utcnow, settings_cache, warnings,
                   next_warning_id, infractions>>

\* mutant: the cache entry is dropped instead of rewritten
PolicySelectInvalidate(h) ==
    /\ hs[h].pc = "policy_select"
    /\ settings_cache' = [settings_cache EXCEPT ![hs[h].guild] = NoCacheEntry]
    /\ hs' = [hs EXCEPT ![h].settings = guild_settings[hs[h].guild],
                        ![h].sent = {"reply"}, ![h].pc = "done"]
    /\ UNCHANGED <<event_obs, now, spam_buckets, spam_obs, utcnow, guild_settings, warnings,
                   next_warning_id, infractions>>

\* WarnStore.update_guild_settings: "return await self.get_guild_settings(...)",
\* then _update_guild_settings writes the cache entry and the command replies
PolicySelect(h) ==
    /\ hs[h].pc = "policy_select"
    /\ \E ok \in BOOLEAN :
           LET g == hs[h].guild
               settings == guild_settings[g]
           IN  IF ok
               THEN /\ settings_cache' = [settings_cache EXCEPT ![g] =
                           [cached |-> TRUE, at |-> now, settings |-> settings]]
                    /\ hs' = [hs EXCEPT ![h].settings = settings, ![h].sent = {"reply"},
                                        ![h].pc = "done"]
               ELSE /\ UNCHANGED settings_cache
                    /\ hs' = [hs EXCEPT ![h].raised = TRUE, ![h].sent = {"reply"},
                                        ![h].pc = "done"]
    /\ UNCHANGED <<event_obs, now, spam_buckets, spam_obs, utcnow, guild_settings, warnings,
                   next_warning_id, infractions>>

----------------------------------------------------------------------------
(* _update_guild_settings called with any keyword arguments ("update") *)

\* mutant: a field SETTINGS_FIELD_TYPES does not have is skipped
AfterEnsureSkipUnknown(unknown_field) == "policy_update"

\* update_guild_settings: "if field_type is None: raise ValueError(...)" in
\* the loop that builds the UPDATE, before it is executed
AfterEnsure(unknown_field) == IF unknown_field THEN "done" ELSE "policy_update"

\* _update_guild_settings(guild_id, **updates): no field at all goes straight
\* to get_guild_settings, anything else to ensure_guild_settings
UpdateBegin(h) ==
    /\ CanStart(h)
    /\ \E g \in Guilds, options \in PolicyOptions, unknown_field \in BOOLEAN :
           hs' = [hs EXCEPT ![h] =
                  [NewRun("update", g, "u1") EXCEPT
                      !.updates = options, !.unknown_field = unknown_field,
                      !.pc = IF options = NoOptions /\ ~unknown_field
                             THEN "policy_select" ELSE "ensure"]]
    /\ UNCHANGED <<event_obs, now, spam_buckets, spam_obs, utcnow, guild_settings, settings_cache,
                   warnings, next_warning_id, infractions>>

\* ensure_guild_settings (the guild has its row: "ON DUPLICATE KEY UPDATE
\* guild_id = guild_id"), then the loop over the fields
UpdateEnsure(h) ==
    /\ hs[h].pc = "ensure"
    /\ \E ok \in BOOLEAN :
           LET next == IF ok THEN AfterEnsure(hs[h].unknown_field) ELSE "done"
           IN  hs' = [hs EXCEPT ![h].pc = next, ![h].raised = (next = "done")]
    /\ UNCHANGED <<event_obs, now, spam_buckets, spam_obs, utcnow, guild_settings, settings_cache,
                   warnings, next_warning_id, infractions>>

----------------------------------------------------------------------------
(* Specifications *)

\* time.monotonic() advances.
Tick ==
    /\ now < MaxTime
    /\ now' = now + 1
    /\ UNCHANGED <<event_obs, spam_buckets, spam_obs, utcnow, guild_settings,
                   settings_cache, warnings, next_warning_id, infractions, hs>>

\* ModerationCog.__init__: empty cache and buckets, no handler running
InitCog ==
    /\ now = 0
    /\ spam_buckets = [k \in Keys |-> <<>>]
    /\ spam_obs = [k \in Keys |-> NoSpamObs]
    /\ settings_cache = [g \in Guilds |-> NoCacheEntry]
    /\ hs = [h \in Handlers |-> IdleHandler]
    /\ event_obs = NoEventObs

\* The detector alone: the store plays no part.
InitSpam ==
    /\ InitCog
    /\ utcnow = 0
    /\ guild_settings = [g \in Guilds |-> DEFAULT_GUILD_SETTINGS]
    /\ warnings = {}
    /\ next_warning_id = 1
    /\ infractions = <<>>

NextSpam ==
    \/ Tick
    \/ \E k \in Keys, raw_max \in 1..MaxRawSpamMax, raw_interval \in 0..MaxRawInterval :
           Record(k, raw_max, raw_interval)

SpecSpam == InitSpam /\ [][NextSpam]_vars

\* Rows of guild_settings the handlers run under: the pairs of thresholds
\* /setwarnpolicy accepts, a spam limit two messages can reach, a mod-log
\* channel.
FlowPolicies ==
    {[DEFAULT_GUILD_SETTINGS EXCEPT !.warn_timeout_threshold = tb[1],
                                    !.warn_ban_threshold = tb[2],
                                    !.automod_spam_max_messages = SpamMaxFloor,
                                    !.mod_log_channel_id = <<"modlog">>] :
        tb \in {x \in (0..MaxThreshold) \X (0..MaxThreshold) : PolicyAccepted(x[1], x[2])}}

\* The cog and the store as earlier events left them: a settings row per
\* guild, cached or not yet, and up to MaxInitWarnings active warnings of u1.
Init ==
    /\ now = 0
    /\ spam_buckets = [k \in Keys |-> <<>>]
    /\ spam_obs = [k \in Keys |-> NoSpamObs]
    /\ hs = [h \in Handlers |-> IdleHandler]
    /\ event_obs = NoEventObs
    /\ utcnow = 0
    /\ guild_settings \in [Guilds -> FlowPolicies]
    /\ settings_cache \in
           [Guilds -> {NoCacheEntry}] \cup
           {[g \in Guilds |-> [cached |-> TRUE, at |-> 0, settings |-> guild_settings[g]]]}
    /\ \E n \in 0..MaxInitWarnings :
           /\ warnings = {[id |-> i, guild |-> "g1", user |-> "u1",
                           expires_at |-> WarningExpiresAt(guild_settings["g1"], utcnow)] :
                          i \in 1..n}
           /\ next_warning_id = n + 1
    /\ infractions = <<>>

\* One step of handler h.
Step(h) ==
    \/ MsgIgnored(h)
    \/ MsgBeginCached(h)
    \/ MsgBeginFetch(h)
    \/ MsgFetched(h)
    \/ FetchFailed(h)
    \/ MsgDelete(h)
    \/ MsgLogRule(h)
    \/ WarnDenied(h)
    \/ WarnBeginCached(h)
    \/ WarnBeginFetch(h)
    \/ WarnFetched(h)
    \/ AddInsert(h)
    \/ AddCount(h)
    \/ LogWarn(h)
    \/ BanCall(h)
    \/ LogBan(h)
    \/ TimeoutCall(h)
    \/ LogTimeout(h)
    \/ MsgNotice(h)
    \/ SendModlog(h)
    \/ ClearDenied(h)
    \/ ClearBegin(h)
    \/ ClearDelete(h)
    \/ ClearLog(h)
    \/ ClearFetched(h)

\* The calls of one run that failed: audit writes, store calls that raised,
\* rejected restriction calls, a refused removal.
Faults(rec) ==
    Cardinality(rec.audit_failed)
    + Cardinality({i \in 1..Len(rec.calls) : ~rec.calls[i].ok})
    + (IF rec.raised THEN 1 ELSE 0)
    + (IF rec.deleted = "no" THEN 1 ELSE 0)

RECURSIVE SumFaults(_)
SumFaults(H) ==
    IF H = {} THEN 0
    ELSE LET h == CHOOSE x \in H : TRUE IN Faults(hs[h]) + SumFaults(H \ {h})

\* One event, handled from start to end.
Next == Step("h1")

\* Two events whose handlers interleave at their awaits; at most MaxRaceFaults
\* calls fail.
WithinFaults == SumFaults(Handlers)' <= MaxRaceFaults

StepRace(h) ==
    \/ MsgIgnored(h) /\ WithinFaults
    \/ MsgBeginCached(h) /\ WithinFaults
    \/ MsgBeginFetch(h) /\ WithinFaults
    \/ MsgFetched(h) /\ WithinFaults
    \/ FetchFailed(h) /\ WithinFaults
    \/ MsgDelete(h) /\ WithinFaults
    \/ MsgLogRule(h) /\ WithinFaults
    \/ WarnDenied(h) /\ WithinFaults
    \/ WarnBeginCached(h) /\ WithinFaults
    \/ WarnBeginFetch(h) /\ WithinFaults
    \/ WarnFetched(h) /\ WithinFaults
    \/ AddInsert(h) /\ WithinFaults
    \/ AddCount(h) /\ WithinFaults
    \/ LogWarn(h) /\ WithinFaults
    \/ BanCall(h) /\ WithinFaults
    \/ LogBan(h) /\ WithinFaults
    \/ TimeoutCall(h) /\ WithinFaults
    \/ LogTimeout(h) /\ WithinFaults
    \/ MsgNotice(h) /\ WithinFaults
    \/ SendModlog(h) /\ WithinFaults
    \/ ClearDenied(h) /\ WithinFaults
    \/ ClearBegin(h) /\ WithinFaults
    \/ ClearDelete(h) /\ WithinFaults
    \/ ClearLog(h) /\ WithinFaults
    \/ ClearFetched(h) /\ WithinFaults

NextRace == \E h \in Handlers : StepRace(h)

\* The store for the interleavings: one row of thresholds (timeout at 1, ban
\* at 2), the entry cached or not, u1 with no warning or one.
InitRace ==
    /\ Init
    /\ \A g \in Guilds : /\ guild_settings[g].warn_timeout_threshold = 1
                          /\ guild_settings[g].warn_ban_threshold = 2
    /\ Cardinality(warnings) <= 1

Spec == Init /\ [][Next]_vars

SpecRace == InitRace /\ [][NextRace]_vars

----------------------------------------------------------------------------
(* C1: a run of exactly maxMessages Record calls of one key, starting from
   an empty bucket, under unchanged spam settings and all within
   intervalSeconds, returns true exactly once, on its last call, and leaves
   the bucket of the key empty. Shorter runs of that kind return true never. *)
C1_ExactBurstTripsOnce ==
    \A k \in Keys :
        LET o == spam_obs[k] IN
        o.run_len >= 1
        => /\ o.run_trips = (IF o.run_len = o.run_max THEN 1 ELSE 0)
           /\ o.result = (o.run_len = o.run_max)
           /\ (o.run_len = o.run_max => spam_buckets[k] = <<>>)

C1_Witness ==
    \E k \in Keys :
        LET o == spam_obs[k] IN
        /\ o.run_len = o.run_max /\ o.run_max = 3
        /\ o.run_last > o.run_first
        /\ o.run_last - o.run_first <= o.run_interval
        /\ o.result /\ spam_buckets[k] = <<>>

(* C2: Record returns true only when at least maxMessages calls of the key
   since its last trip, the current one included, lie within
   intervalSeconds of now; calls further back do not count. *)
C2_NoTripBelowThreshold ==
    \A k \in Keys :
        spam_obs[k].result => spam_obs[k].in_window >= spam_obs[k].max

C2_Witness ==
    \E k \in Keys :
        LET o == spam_obs[k] IN
        /\ ~o.result
        /\ o.in_window = o.max - 1
        /\ Len(o.events) > o.in_window

----------------------------------------------------------------------------
(* Escalation and the warning flow *)

HasCall(rec, kind) == \E i \in 1..Len(rec.calls) : rec.calls[i].kind = kind

BanMet(rec) ==
    rec.settings.warn_ban_threshold > 0
    /\ rec.eval_active >= rec.settings.warn_ban_threshold

TimeoutMet(rec) ==
    rec.settings.warn_timeout_threshold > 0
    /\ rec.eval_active >= rec.settings.warn_timeout_threshold

EscalationTags == {"auto_ban_warns", "auto_timeout_warns"}

(* C3 as stated: whenever Evaluate ran with activeCount >= warnBanThreshold > 0
   and ban threshold >= timeout threshold, it called the ban and no timeout. *)
C3_BanAlwaysCalled ==
    \A h \in Handlers :
        LET r == hs[h] IN
        (r.evaluated = "returned" /\ BanMet(r)
            /\ r.settings.warn_ban_threshold >= r.settings.warn_timeout_threshold)
        => HasCall(r, "ban") /\ ~HasCall(r, "timeout")

(* C3 amended: whenever Evaluate runs with activeCount >= warnBanThreshold > 0
   and ban threshold >= timeout threshold, it takes the ban branch and never
   the timeout: no timeout call is made or pending, the ban is called exactly
   when the bot out-ranks the target, and the status returned is one of the
   three ban statuses. *)
C3_BanBranchNeverTimeout ==
    \A h \in Handlers :
        LET r == hs[h] IN
        (r.evaluated # "no" /\ BanMet(r)
            /\ r.settings.warn_ban_threshold >= r.settings.warn_timeout_threshold)
        => /\ ~HasCall(r, "timeout")
           /\ r.pc \notin {"timeout_call", "log_timeout"}
           /\ r.evaluated = "running" => r.target_below_bot
           /\ r.evaluated = "returned" =>
                  /\ HasCall(r, "ban") <=> r.target_below_bot
                  /\ r.escalation \in {"ban_no_hierarchy", "ban_failed", "ban_applied"}

C3_Witness ==
    \E h \in Handlers :
        LET r == hs[h] IN
        /\ r.evaluated = "returned" /\ BanMet(r) /\ TimeoutMet(r)
        /\ r.settings.warn_ban_threshold > r.settings.warn_timeout_threshold
        /\ r.calls = <<[kind |-> "ban", ok |-> TRUE]>>
        /\ r.escalation = "ban_applied"

(* C4: when the ban check does not trigger and the timeout threshold is > 0,
   Evaluate with activeCount = threshold, a target that is no administrator
   and is below the bot makes exactly one restriction call, the timeout;
   Evaluate with activeCount = threshold - 1 makes no call and returns no
   status. *)
C4_TimeoutAtThreshold ==
    \A h \in Handlers :
        LET r == hs[h] IN
        (r.evaluated = "returned" /\ ~BanMet(r) /\ r.settings.warn_timeout_threshold > 0)
        => /\ (r.eval_active = r.settings.warn_timeout_threshold
                  /\ ~r.target_admin /\ r.target_below_bot)
              => (Len(r.calls) = 1 /\ r.calls[1].kind = "timeout")
           /\ r.eval_active = r.settings.warn_timeout_threshold - 1
              => (r.calls = <<>> /\ r.escalation = None)

C4_Witness ==
    \E h \in Handlers :
        LET r == hs[h] IN
        /\ r.evaluated = "returned" /\ ~BanMet(r)
        /\ r.settings.warn_ban_threshold > 0
        /\ r.eval_active = r.settings.warn_timeout_threshold
        /\ r.calls = <<[kind |-> "timeout", ok |-> TRUE]>>

(* C5: with warnBanThreshold = 0 no ban is called for any activeCount, and a
   timeout whose threshold is met is still called (target no administrator,
   below the bot); with warnTimeoutThreshold = 0 no timeout is called; with
   both 0 Evaluate makes no call and returns no status. *)
C5_ZeroDisables ==
    \A h \in Handlers :
        LET r == hs[h]
            ban == r.settings.warn_ban_threshold
            timeout == r.settings.warn_timeout_threshold
        IN  r.evaluated # "no"
            => /\ ban = 0 => (~HasCall(r, "ban") /\ r.pc \notin {"ban_call", "log_ban"})
               /\ timeout = 0 =>
                      (~HasCall(r, "timeout") /\ r.pc \notin {"timeout_call", "log_timeout"})
               /\ (ban = 0 /\ timeout = 0) =>
                      (r.evaluated = "returned" /\ r.calls = <<>> /\ r.escalation = None)
               /\ (ban = 0 /\ r.evaluated = "returned" /\ TimeoutMet(r)
                      /\ ~r.target_admin /\ r.target_below_bot)
                  => HasCall(r, "timeout")

C5_Witness ==
    \E h \in Handlers :
        LET r == hs[h] IN
        /\ r.evaluated = "returned"
        /\ r.settings.warn_ban_threshold = 0
        /\ r.settings.warn_timeout_threshold > 0
        /\ r.eval_active > r.settings.warn_timeout_threshold
        /\ r.calls = <<[kind |-> "timeout", ok |-> TRUE]>>

(* C6: when Evaluate is invoked, AddWarning of the same event has returned,
   and the activeCount handed to Evaluate is the one it returned and is at
   least 1: it counts the warning just inserted. *)
C6_EvaluateSeesOwnWarning ==
    \A h \in Handlers :
        LET r == hs[h] IN
        r.evaluated # "no"
        => /\ r.add = "ok"
           /\ r.eval_active = r.active
           /\ r.eval_active >= 1

(* C7: once AddWarning has failed (at the insert or at the count), the event
   is over: Evaluate is never invoked, no restriction call is made and no
   escalation entry is written to the audit log, in on_message and in /warn. *)
C7_LedgerFailureStops ==
    \A h \in Handlers :
        LET r == hs[h] IN
        r.add = "failed"
        => /\ r.pc = "done"
           /\ r.evaluated = "no"
           /\ r.calls = <<>>
           /\ (r.audit_logged \cup r.audit_failed) \cap EscalationTags = {}
           /\ \A i \in 1..Len(infractions) :
                  infractions[i].action \in EscalationTags
                  => \E g \in Handlers : g # h /\ infractions[i].action \in hs[g].audit_logged

C7_Witness ==
    \E h \in Handlers :
        LET r == hs[h] IN
        /\ r.add = "failed" /\ r.pc = "done"
        /\ r.kind \in {"msg", "warn"}
        /\ r.warning_id > 0
        /\ TimeoutMet([r EXCEPT !.eval_active = CountWarnings(r.guild, r.user).active])

(* C8: an audit write that fails never ends the event. Every handler that
   classified a violation (or took a manual warning) and met no store error
   finishes with the warning inserted, Evaluate returned, and exactly the
   restriction call the thresholds, the activeCount and the target call for,
   whichever of its audit writes failed. *)
C8_AuditFailureNeverPropagates ==
    \A h \in Handlers :
        LET r == hs[h]
            branch == EscalationBranch(r.eval_active, r.settings)
            due == IF branch = "ban" /\ r.target_below_bot THEN <<"ban">>
                   ELSE IF branch = "timeout" /\ ~r.target_admin /\ r.target_below_bot
                   THEN <<"timeout">>
                   ELSE <<>>
        IN  (r.pc = "done" /\ r.action # None /\ ~r.raised)
            => /\ r.add = "ok"
               /\ r.warning_id > 0
               /\ r.evaluated = "returned"
               /\ [i \in 1..Len(r.calls) |-> r.calls[i].kind] = due

C8_Witness ==
    \E h \in Handlers :
        LET r == hs[h] IN
        /\ r.pc = "done" /\ r.kind = "msg"
        /\ r.audit_failed = {r.action, "warn", "auto_timeout_warns"}
        /\ r.calls = <<[kind |-> "timeout", ok |-> TRUE]>>
        /\ infractions = <<>>

(* C9: in on_message, once a rule has matched, the event does not end before
   add_warning is called: past the removal and the rule's audit write the
   warning write has been invoked, whether or not those two succeeded. *)
C9_WarningAfterViolation ==
    \A h \in Handlers :
        LET r == hs[h] IN
        (r.kind = "msg" /\ r.action # None /\ r.pc \notin {"delete", "log_rule"})
        => r.add # None

C9_Witness ==
    \E h \in Handlers :
        LET r == hs[h] IN
        /\ r.kind = "msg" /\ r.deleted = "no"
        /\ r.action \in r.audit_failed
        /\ r.add = "ok"
        /\ \E w \in warnings : w.id = r.warning_id

(* C10: one warning event makes at most one restriction call, and a call that
   was rejected ends Evaluate with the failure status of that call: the
   handler goes on to its notifications, with no second call. *)
C10_AtMostOneRestriction ==
    \A h \in Handlers :
        LET r == hs[h] IN
        /\ Len(r.calls) <= 1
        /\ (Len(r.calls) = 1 /\ ~r.calls[1].ok /\ ~r.raised)
           => /\ r.evaluated = "returned"
              /\ r.escalation = (IF r.calls[1].kind = "ban" THEN "ban_failed"
                                  ELSE "timeout_failed")
              /\ r.pc \in {"notice", "modlog", "done"}

C10_Witness ==
    \E h \in Handlers :
        LET r == hs[h] IN
        /\ r.pc = "done"
        /\ r.calls = <<[kind |-> "ban", ok |-> FALSE]>>
        /\ TimeoutMet(r)
        /\ ~r.target_admin
        /\ r.escalation = "ban_failed"

----------------------------------------------------------------------------
(* The classifier on its own: messages screened one after the other *)

\* The rules that are switched on and that the message matches; for the spam
\* rule: the message would be the max_messages-th within the interval.
MatchingRules(settings, has_link, mentions, bucket, t) ==
    {rule \in {"automod_link", "automod_mention_flood", "automod_spam"} :
        \/ rule = "automod_link" /\ settings.automod_anti_link /\ has_link
        \/ rule = "automod_mention_flood" /\ settings.automod_anti_mention_flood
              /\ mentions >= Max(1, settings.automod_mention_limit)
        \/ rule = "automod_spam" /\ settings.automod_anti_spam
              /\ InWindow(bucket, t, EffectiveInterval(settings.automod_spam_interval_seconds)) + 1
                    >= EffectiveMaxMessages(settings.automod_spam_max_messages)}

\* Policies a message is screened under: every combination of the four
\* switches, with or without a bypass role.
ScreenPolicies ==
    {[DEFAULT_GUILD_SETTINGS EXCEPT !.automod_enabled = sw[1],
                                    !.automod_anti_link = sw[2],
                                    !.automod_anti_mention_flood = sw[3],
                                    !.automod_anti_spam = sw[4],
                                    !.automod_bypass_role_ids = roles,
                                    !.automod_spam_max_messages = SpamMaxFloor,
                                    !.automod_spam_interval_seconds = MaxRawInterval] :
        sw \in BOOLEAN \X BOOLEAN \X BOOLEAN \X BOOLEAN,
        roles \in {{}, {ExemptRole}}}

\* Authors and contents of the messages screened: the members that differ in
\* what the bypass check reads, with and without a link, with no mention, one
\* mention short of MaxMentions, and MaxMentions of them.
ScreenAuthors == {m \in MemberProfiles : m.top_role = 0}
ScreenMentions == {0, MaxMentions - 1, MaxMentions}
ScreenKey == <<"g1", "u1">>

\* on_message from the settings to the end of the rule chain, for one message
\* of key k with the given author and content.
ScreenMessage(k, settings, member, has_link, mentions) ==
    LET c == Classify(settings, member, has_link, mentions, spam_buckets[k], now)
    IN  /\ IF c.recorded
           THEN RecordEffect(k, settings.automod_spam_max_messages,
                             settings.automod_spam_interval_seconds)
           ELSE UNCHANGED <<spam_buckets, spam_obs>>
        /\ event_obs' = [event_obs EXCEPT !.screen =
               [valid |-> TRUE, key |-> k,
                enabled |-> settings.automod_enabled,
                bypass |-> BypassReason(member, settings),
                spam_on |-> settings.automod_anti_spam,
                matches |-> MatchingRules(settings, has_link, mentions,
                                          spam_buckets[k], now),
                action |-> c.action,
                wrote |-> spam_buckets' # spam_buckets]]
        /\ UNCHANGED <<now, utcnow, guild_settings, settings_cache, warnings,
                       next_warning_id, infractions, hs>>

NextClassify ==
    \/ Tick
    \/ \E settings \in ScreenPolicies, member \in ScreenAuthors,
          has_link \in BOOLEAN, mentions \in ScreenMentions :
           ScreenMessage(ScreenKey, settings, member, has_link, mentions)

SpecClassify == InitSpam /\ [][NextClassify]_vars

FirstRule(matches) ==
    IF "automod_link" \in matches THEN "automod_link"
    ELSE IF "automod_mention_flood" \in matches THEN "automod_mention_flood"
    ELSE IF "automod_spam" \in matches THEN "automod_spam"
    ELSE None

(* C11: for a message of a member that is not exempt, screened with automod
   on, the rule returned is the first of link, mention flood, spam among the
   rules that are switched on and match, and none when no such rule matches;
   a rule further down the order is never reported beside or instead of it,
   and the spam detector records the message only when neither the link nor
   the mention rule matched. *)
C11_FirstMatchOnly ==
    LET o == event_obs.screen IN
    (o.valid /\ o.enabled /\ o.bypass = "no")
    => /\ o.action = FirstRule(o.matches)
       /\ o.wrote => (o.spam_on /\ o.matches \cap {"automod_link", "automod_mention_flood"} = {})

C11_Witness ==
    LET o == event_obs.screen IN
    /\ o.valid /\ o.enabled /\ o.bypass = "no"
    /\ o.matches = {"automod_link", "automod_mention_flood", "automod_spam"}
    /\ o.action = "automod_link"
    /\ ~o.wrote

(* C13: a message screened under a policy whose spam switch is off changes
   no bucket of the spam window, whatever the other switches, the author and
   the content are, so nothing sent while the switch is off is counted when
   the switch is on again. *)
C13_SpamOffFeedsNothing ==
    LET o == event_obs.screen IN
    (o.valid /\ ~o.spam_on) => ~o.wrote

\* One short of the trip is on record, the switch is off, and a plain message
\* of a non-exempt author passes without being counted.
C13_Witness ==
    LET o == event_obs.screen IN
    /\ o.valid /\ o.enabled /\ o.bypass = "no" /\ ~o.spam_on
    /\ o.matches = {} /\ o.action = None
    /\ InWindow(spam_buckets[o.key], now, MaxRawInterval) = SpamMaxFloor - 1

----------------------------------------------------------------------------
(* One event under policies with and without a bypass role *)

BypassPolicies ==
    {[p EXCEPT !.automod_bypass_role_ids = roles] :
        p \in FlowPolicies, roles \in {{}, {ExemptRole}}}

\* As Init, the settings row drawn from BypassPolicies.
InitBypass ==
    /\ now = 0
    /\ spam_buckets = [k \in Keys |-> <<>>]
    /\ spam_obs = [k \in Keys |-> NoSpamObs]
    /\ hs = [h \in Handlers |-> IdleHandler]
    /\ event_obs = NoEventObs
    /\ utcnow = 0
    /\ guild_settings \in [Guilds -> BypassPolicies]
    /\ settings_cache \in
           [Guilds -> {NoCacheEntry}] \cup
           {[g \in Guilds |-> [cached |-> TRUE, at |-> 0, settings |-> guild_settings[g]]]}
    /\ \E n \in 0..MaxInitWarnings :
           /\ warnings = {[id |-> i, guild |-> "g1", user |-> "u1",
                           expires_at |-> WarningExpiresAt(guild_settings["g1"], utcnow)] :
                          i \in 1..n}
           /\ next_warning_id = n + 1
    /\ infractions = <<>>

SpecBypass == InitBypass /\ [][Next]_vars

(* C12: a message whose author has administrative capability or holds a
   bypass role ends on_message at the bypass check: nothing is removed, no
   audit entry and no warning is written, Evaluate is not invoked, no
   restriction call and no notification is made, and the bucket of the
   author's key is not written. *)
C12_BypassLeavesNoTrace ==
    \A h \in Handlers :
        LET r == hs[h] IN
        (r.kind = "msg" /\ r.author_bypass # "no")
        => /\ r.pc = "done" /\ r.action = None
           /\ r.deleted = "unasked"
           /\ r.add = None /\ r.warning_id = 0
           /\ r.evaluated = "no" /\ r.calls = <<>>
           /\ r.audit_logged = {} /\ r.audit_failed = {} /\ r.sent = {}
           /\ infractions = <<>>
           /\ Cardinality(warnings) = next_warning_id - 1
           /\ spam_buckets[<<r.guild, r.user>>] = <<>>
           /\ spam_obs[<<r.guild, r.user>>] = NoSpamObs

C12_Witness ==
    \E h \in Handlers :
        /\ hs[h].kind = "msg" /\ hs[h].author_bypass = "role"
        /\ hs[h].pc = "done"
        /\ hs[h].settings.warn_timeout_threshold = 1
        /\ warnings # {}

----------------------------------------------------------------------------
(* Bursts of plain messages of one member under the default policy *)

MaxBurstMessages == 25   \* messages of the member that reach the spam detector

BurstKey == <<"g1", "u1">>

\* The coroutine of an event that ended is gone; the next event of the
\* listener or command starts from fresh locals.
Reset(h) ==
    /\ hs[h].pc = "done"
    /\ hs' = [hs EXCEPT ![h] = IdleHandler]
    /\ UNCHANGED <<event_obs, now, spam_buckets, spam_obs, utcnow, guild_settings,
                   settings_cache, warnings, next_warning_id, infractions>>

\* the next message may still be sent
BurstOpen == event_obs.msgs[BurstKey] < MaxBurstMessages

\* the message was plain text of a non-exempt member: it reached the detector
PlainMessage == BurstOpen /\ event_obs'.msgs # event_obs.msgs

\* the store, the audit log and the platform answered
NoFault(h) == Faults(hs[h])' = 0

NextBurst ==
    \/ Tick
    \/ MsgBeginCached("h1") /\ PlainMessage
    \/ MsgBeginFetch("h1") /\ BurstOpen
    \/ MsgFetched("h1") /\ PlainMessage
    \/ MsgDelete("h1")
    \/ MsgLogRule("h1") /\ NoFault("h1")
    \/ AddInsert("h1") /\ NoFault("h1")
    \/ AddCount("h1") /\ NoFault("h1")
    \/ LogWarn("h1") /\ NoFault("h1")
    \/ BanCall("h1") /\ NoFault("h1")
    \/ LogBan("h1") /\ NoFault("h1")
    \/ TimeoutCall("h1") /\ NoFault("h1")
    \/ LogTimeout("h1") /\ NoFault("h1")
    \/ MsgNotice("h1")
    \/ SendModlog("h1")
    \/ Reset("h1")

\* default policy row, empty ledger, nothing cached
SpecBurst == InitSpam /\ [][NextBurst]_vars

(* C14: under the default policy (5 messages in 8 seconds, timeout threshold 3,
   ban threshold 5) and an empty ledger, the m-th plain message of a member is
   a spam violation exactly when m is a multiple of 5; the k-th such burst
   adds exactly one warning and add_warning reports active = total = k;
   bursts 1 and 2 make no restriction call and report no escalation; bursts 3
   and 4 take the timeout branch (the timeout is called when the member is no
   administrator and below the bot); from burst 5 on the ban branch is taken
   and no timeout is called. *)
C14_BurstScenario ==
    LET r == hs["h1"]
        m == event_obs.msgs[BurstKey]
        k == m \div DefaultSpamMaxMessages
        tripped == m > 0 /\ m % DefaultSpamMaxMessages = 0
        pending == r.pc \in {"delete", "log_rule", "add_insert"}
    IN  /\ Cardinality(warnings) = IF tripped /\ pending THEN k - 1 ELSE k
        /\ r.pc \notin {"idle", "fetch_settings"}
           => /\ (r.action = "automod_spam") = tripped
              /\ r.action \in {None, "automod_spam"}
              /\ ~tripped => (r.pc = "done" /\ r.add = None /\ r.calls = <<>>)
              /\ r.add = "ok" => (r.active = k /\ r.total = k)
              /\ r.pc \in {"notice", "modlog", "done"} /\ tripped
                 => (r.add = "ok" /\ r.evaluated = "returned")
              /\ r.evaluated # "no"
                 => /\ r.eval_active = k
                    /\ k < DefaultTimeoutThreshold
                       => (r.calls = <<>> /\ r.evaluated = "returned"
                           /\ r.escalation = None)
                    /\ (k >= DefaultTimeoutThreshold /\ k < DefaultBanThreshold)
                       => /\ ~HasCall(r, "ban")
                          /\ IF ~r.target_admin /\ r.target_below_bot
                             THEN r.evaluated = "returned"
                                  => (r.calls = <<[kind |-> "timeout", ok |-> TRUE]>>
                                      /\ r.escalation = "timeout_applied")
                             ELSE r.calls = <<>>
                                  /\ r.escalation \in {"timeout_skipped_admin",
                                                       "timeout_no_hierarchy"}
                    /\ k >= DefaultBanThreshold
                       => /\ ~HasCall(r, "timeout")
                          /\ IF r.target_below_bot
                             THEN r.evaluated = "returned"
                                  => (r.calls = <<[kind |-> "ban", ok |-> TRUE]>>
                                      /\ r.escalation = "ban_applied")
                             ELSE r.calls = <<>> /\ r.escalation = "ban_no_hierarchy"

\* The fifth burst ended in a ban after the third had ended in a timeout.
C14_Witness ==
    LET r == hs["h1"] IN
    /\ event_obs.msgs[BurstKey] = DefaultSpamMaxMessages * DefaultBanThreshold
    /\ r.pc = "done" /\ r.action = "automod_spam"
    /\ r.active = DefaultBanThreshold
    /\ r.escalation = "ban_applied"
    /\ \E i \in 1..Len(infractions) : infractions[i].action = "auto_timeout_warns"
    /\ Cardinality(warnings) = DefaultBanThreshold

----------------------------------------------------------------------------
(* Two /setwarnpolicy commands *)

\* A stored row with accepted thresholds, cached or not, and an empty ledger.
InitPolicy ==
    /\ InitCog
    /\ utcnow = 0
    /\ guild_settings \in [Guilds -> FlowPolicies]
    /\ warnings = {}
    /\ next_warning_id = 1
    /\ infractions = <<>>

StepPolicy(h) ==
    \/ PolicyEmpty(h)
    \/ PolicyBeginCached(h)
    \/ PolicyBeginFetch(h)
    \/ PolicyFetched(h)
    \/ FetchFailed(h)
    \/ PolicyUpdate(h)
    \/ PolicySelect(h)

\* Each of two moderators issues one command; the handlers interleave at
\* their awaits.
NextPolicy == \E h \in Handlers : StepPolicy(h)

SpecPolicy == InitPolicy /\ [][NextPolicy]_vars

(* C20 as stated: in every reachable state the stored thresholds of every
   guild satisfy timeout = 0, or ban = 0, or ban >= timeout. *)
C20_ThresholdsOrdered ==
    \A g \in Guilds :
        PolicyAccepted(guild_settings[g].warn_timeout_threshold,
                       guild_settings[g].warn_ban_threshold)

----------------------------------------------------------------------------
(* The ledger under a run of commands: /warn, /clearwarnings and
   /setwarnpolicy expiration_days, one after another, while the wall clock
   advances *)

MaxLedgerWarnings == 3   \* warnings inserted in one behaviour

\* Wall-clock instants (minutes): the start, and one minute before, at and
\* after each whole day.
WallMarks ==
    {0} \cup {d * MinutesPerDay + e : d \in 1..MaxExpirationDays, e \in {-1, 0, 1}}

\* datetime.now(timezone.utc) and the store's CURRENT_TIMESTAMP advance
Advance ==
    /\ \E wall \in WallMarks : wall > utcnow /\ utcnow' = wall
    /\ UNCHANGED <<event_obs, now, spam_buckets, spam_obs, guild_settings, settings_cache,
                   warnings, next_warning_id, infractions, hs>>

\* Rows of guild_settings with escalation switched off and any expiration.
LedgerPolicies ==
    {[DEFAULT_GUILD_SETTINGS EXCEPT !.warn_timeout_threshold = 0,
                                    !.warn_ban_threshold = 0,
                                    !.warn_expiration_days = days] :
        days \in 0..MaxExpirationDays}

\* An empty ledger and a stored policy, cached or not.
InitLedger ==
    /\ now = 0
    /\ spam_buckets = [k \in Keys |-> <<>>]
    /\ spam_obs = [k \in Keys |-> NoSpamObs]
    /\ hs = [h \in Handlers |-> IdleHandler]
    /\ event_obs = NoEventObs
    /\ utcnow = 0
    /\ guild_settings \in [Guilds -> LedgerPolicies]
    /\ settings_cache \in
           [Guilds -> {NoCacheEntry}] \cup
           {[g \in Guilds |-> [cached |-> TRUE, at |-> 0, settings |-> guild_settings[g]]]}
    /\ warnings = {}
    /\ next_warning_id = 1
    /\ infractions = <<>>

\* one more warning may still be issued
LedgerOpen == next_warning_id <= MaxLedgerWarnings

\* the command gave expiration_days and no threshold
ExpirationOnly(h) ==
    /\ hs'[h].updates.warn_timeout_threshold = Null
    /\ hs'[h].updates.warn_ban_threshold = Null

\* the audit log took the entry (the store calls of the ledger may still fail)
AuditWritten(h) == hs'[h].audit_failed = {}

NextLedger ==
    \/ Advance
    \/ WarnDenied("h1")
    \/ WarnBeginCached("h1") /\ LedgerOpen
    \/ WarnBeginFetch("h1") /\ LedgerOpen
    \/ WarnFetched("h1")
    \/ FetchFailed("h1")
    \/ AddInsert("h1")
    \/ AddCount("h1")
    \/ LogWarn("h1") /\ AuditWritten("h1")
    \/ SendModlog("h1")
    \/ ClearDenied("h1")
    \/ ClearBegin("h1")
    \/ ClearDelete("h1")
    \/ ClearLog("h1") /\ AuditWritten("h1")
    \/ PolicyBeginCached("h1") /\ ExpirationOnly("h1")
    \/ PolicyBeginFetch("h1") /\ ExpirationOnly("h1")
    \/ PolicyFetched("h1")
    \/ PolicyUpdate("h1")
    \/ PolicySelect("h1")
    \/ Reset("h1")

SpecLedger == InitLedger /\ [][NextLedger]_vars

\* the row a recorded warning stands for
RowOf(m) == CHOOSE w \in warnings : w.id = m.id

\* the recorded warnings of a key
MadeFor(k) == {m \in event_obs.made : RowOf(m).guild = k[1] /\ RowOf(m).user = k[2]}

\* every recorded warning has its row: rows go away only by /clearwarnings
MadeHaveRows == \A m \in event_obs.made : \E w \in warnings : w.id = m.id

(* C15: from an empty ledger, the total returned by add_warning to /warn is
   the number of warnings inserted for that member since the ledger of the
   member was last cleared (N for the N-th), and the active count it returns
   is never above it. *)
C15_NthWarningTotalsN ==
    \A h \in Handlers :
        LET r == hs[h] IN
        (r.kind = "warn" /\ r.add = "ok")
        => /\ r.total = event_obs.inserted[<<r.guild, r.user>>]
           /\ r.active <= r.total

\* the third warning in a row returns total 3 although an earlier one expired
C15_Witness ==
    \E h \in Handlers :
        LET r == hs[h] IN
        /\ r.kind = "warn" /\ r.add = "ok"
        /\ r.total = MaxLedgerWarnings
        /\ r.active < r.total

(* C16: a warning made while warn_expiration_days was 0 has a NULL expires_at
   and, as long as its row exists, is counted as active at every later wall
   clock, whatever the policy has become since. *)
C16_ZeroDaysNeverExpires ==
    /\ MadeHaveRows
    /\ \A m \in event_obs.made :
           m.days = 0 => (RowOf(m).expires_at = Null /\ IsActive(RowOf(m), utcnow))
    /\ \A k \in Keys :
           CountWarnings(k[1], k[2]).active
               >= Cardinality({m \in MadeFor(k) : m.days = 0})

\* made at the start under zero days, still active a day and more later, the
\* policy having been given an expiration since
C16_Witness ==
    /\ utcnow = MaxExpirationDays * MinutesPerDay + 1
    /\ guild_settings["g1"].warn_expiration_days > 0
    /\ \E m \in event_obs.made :
           /\ m.days = 0 /\ m.at = 0
           /\ CountWarnings(RowOf(m).guild, RowOf(m).user).active >= 1

(* C17: a warning made while warn_expiration_days was d > 0 has expires_at =
   the wall clock read by _register_warning + d days; the store counts it as
   active exactly while expires_at > now, and counts it in the total as long
   as its row exists. *)
C17_ExpiresAfterDays ==
    /\ MadeHaveRows
    /\ \A m \in event_obs.made :
           m.days > 0 => RowOf(m).expires_at = <<m.at + m.days * MinutesPerDay>>
    /\ \A k \in Keys :
           LET n == CountWarnings(k[1], k[2]) IN
           /\ n.total = Cardinality(MadeFor(k))
           /\ n.active = Cardinality({m \in MadeFor(k) :
                              m.days = 0 \/ m.at + m.days * MinutesPerDay > utcnow})

\* the wall clock is exactly at the expiration of the only warning of a
\* member: counted in the total, not as active
C17_Witness ==
    \E m \in event_obs.made :
        /\ m.days > 0
        /\ utcnow = m.at + m.days * MinutesPerDay
        /\ CountWarnings(RowOf(m).guild, RowOf(m).user) = [total |-> 1, active |-> 0]

----------------------------------------------------------------------------
(* One /clearwarnings over a ledger holding rows of two members and of
   another guild *)

\* Rows earlier commands left behind, as seen one day after the first of
\* them: per member one that never expires, one that expired at this very
\* minute and one that is still active; and two rows the first member has in
\* a guild no command of the behaviour is issued in.
StoredRows ==
    {[id |-> 1, guild |-> "g1", user |-> "u1", expires_at |-> Null],
     [id |-> 2, guild |-> "g1", user |-> "u1", expires_at |-> <<MinutesPerDay>>],
     [id |-> 3, guild |-> "g1", user |-> "u1", expires_at |-> <<MinutesPerDay + 1>>],
     [id |-> 4, guild |-> "g1", user |-> "u2", expires_at |-> Null],
     [id |-> 5, guild |-> "g1", user |-> "u2", expires_at |-> <<MinutesPerDay>>],
     [id |-> 6, guild |-> "g1", user |-> "u2", expires_at |-> <<MinutesPerDay + 1>>],
     [id |-> 7, guild |-> "g2", user |-> "u1", expires_at |-> Null],
     [id |-> 8, guild |-> "g2", user |-> "u1", expires_at |-> <<MinutesPerDay>>]}

\* the default row, with or without a mod-log channel
ClearPolicies ==
    {DEFAULT_GUILD_SETTINGS,
     [DEFAULT_GUILD_SETTINGS EXCEPT !.mod_log_channel_id = <<"modlog">>]}

InitClear ==
    /\ now = 0
    /\ spam_buckets = [k \in Keys |-> <<>>]
    /\ spam_obs = [k \in Keys |-> NoSpamObs]
    /\ hs = [h \in Handlers |-> IdleHandler]
    /\ event_obs = NoEventObs
    /\ utcnow = MinutesPerDay
    /\ guild_settings \in [Guilds -> ClearPolicies]
    /\ settings_cache \in
           [Guilds -> {NoCacheEntry}] \cup
           {[g \in Guilds |-> [cached |-> TRUE, at |-> 0, settings |-> guild_settings[g]]]}
    /\ warnings \in SUBSET StoredRows
    /\ next_warning_id = Cardinality(StoredRows) + 1
    /\ infractions = <<>>

NextClear ==
    \/ ClearDenied("h2")
    \/ ClearBegin("h2")
    \/ ClearDelete("h2")
    \/ ClearLog("h2")
    \/ ClearFetched("h2")
    \/ FetchFailed("h2")
    \/ SendModlog("h2")

SpecClear == InitClear /\ [][NextClear]_vars

\* clear_warnings of handler h returns in this step
ClearReturns(h) ==
    hs[h].pc = "clear_delete" /\ hs'[h].pc # "clear_delete" /\ ~hs'[h].raised

(* C18: when clear_warnings returns, every row of the (guild, user) it was
   called for is gone, active or expired, the number it returns is the number
   of those rows, every row of another member or another guild is still
   there, and the counts of that member in that guild are 0. *)
C18_ClearRemovesEveryRowOfMember ==
    [][\A h \in Handlers :
          ClearReturns(h)
          => LET mine == {w \in warnings : w.guild = hs[h].guild /\ w.user = hs[h].user}
             IN  /\ warnings' = warnings \ mine
                 /\ hs'[h].removed = Cardinality(mine)
                 /\ CountWarnings(hs[h].guild, hs[h].user)' = [total |-> 0, active |-> 0]
      ]_vars

\* three rows of the member were removed, one of them expired, and the rows
\* of the other member and of the other guild are all still there
C18_Witness ==
    \E h \in Handlers :
        /\ hs[h].kind = "clear" /\ hs[h].removed = 3 /\ hs[h].user = "u1"
        /\ warnings = {w \in StoredRows : w.guild # hs[h].guild \/ w.user # hs[h].user}

(* C19: when clear_warnings returns for a member without rows, it returns 0,
   the ledger and the audit log are as before, and the command ends with the
   reply alone: no 'clearwarnings' audit entry, no mod-log message. *)
C19_EmptyClearHasNoEffect ==
    [][\A h \in Handlers :
          (ClearReturns(h)
              /\ ~\E w \in warnings : w.guild = hs[h].guild /\ w.user = hs[h].user)
          => /\ hs'[h].removed = 0
             /\ warnings' = warnings
             /\ infractions' = infractions
             /\ hs'[h].pc = "done"
             /\ hs'[h].sent = {"reply"}
             /\ hs'[h].audit_logged = {} /\ hs'[h].audit_failed = {}
      ]_vars

\* nothing to clear for the member in a guild that has a mod-log channel and
\* rows of another member
C19_Witness ==
    \E h \in Handlers :
        /\ hs[h].kind = "clear" /\ hs[h].pc = "done" /\ ~hs[h].raised
        /\ hs[h].removed = 0 /\ hs[h].sent = {"reply"}
        /\ guild_settings[hs[h].guild].mod_log_channel_id # Null
        /\ warnings # {}
        /\ infractions = <<>>

----------------------------------------------------------------------------
(* Rejected and accepted /setwarnpolicy commands *)

\* the thresholds a command asks for, against the settings it read
AskedTimeout(rec) ==
    IF rec.updates.warn_timeout_threshold # Null
    THEN rec.updates.warn_timeout_threshold[1] ELSE rec.settings.warn_timeout_threshold

AskedBan(rec) ==
    IF rec.updates.warn_ban_threshold # Null
    THEN rec.updates.warn_ban_threshold[1] ELSE rec.settings.warn_ban_threshold

BanBelowTimeout(rec) ==
    AskedTimeout(rec) > 0 /\ AskedBan(rec) > 0 /\ AskedBan(rec) < AskedTimeout(rec)

\* the command of handler h is refused in this step
PolicyRefused(h) == hs[h].sent # {"rejected"} /\ hs'[h].sent = {"rejected"}

(* C21: a /setwarnpolicy whose final thresholds are both non-zero with ban <
   timeout never reaches the store update: it ends with the rejection, and
   the step that refuses it leaves the stored row as it is and the cache
   entry as it is or, when the command had to fetch the settings, holding
   the stored row. *)
C21_RejectedBeforeAnyWrite ==
    /\ [](\A h \in Handlers :
            LET r == hs[h] IN
            /\ (r.kind = "policy" /\ r.pc \in {"policy_update", "policy_select"})
               => ~BanBelowTimeout(r)
            /\ (r.kind = "policy" /\ r.sent = {"rejected"})
               => (r.pc = "done" /\ ~r.raised /\ BanBelowTimeout(r)))
    /\ [][\A h \in Handlers :
            PolicyRefused(h)
            => /\ guild_settings' = guild_settings
               /\ \/ settings_cache' = settings_cache
                  \/ /\ hs[h].pc = "fetch_settings"
                     /\ settings_cache'[hs[h].guild].settings = guild_settings[hs[h].guild]
       ]_vars

\* a command giving only ban_warns = 1 is refused against a stored timeout
\* threshold of 2, which is still stored
C21_Witness ==
    \E h \in Handlers :
        /\ hs[h].kind = "policy" /\ hs[h].sent = {"rejected"}
        /\ hs[h].updates.warn_timeout_threshold = Null
        /\ hs[h].updates.warn_ban_threshold = <<1>>
        /\ guild_settings[hs[h].guild].warn_timeout_threshold = 2
        /\ guild_settings[hs[h].guild].warn_ban_threshold # 1

----------------------------------------------------------------------------
(* The settings cache under a run of /setwarnpolicy commands, one after
   another, while the monotonic clock passes the time to live *)

\* Instants of time.monotonic(): two starts and, for each, the last fresh
\* and the first stale instant.
ClockMarks ==
    {0, 1, SETTINGS_CACHE_TTL, SETTINGS_CACHE_TTL + 1, SETTINGS_CACHE_TTL + 2}

\* time.monotonic() advances
Elapse ==
    /\ \E t \in ClockMarks : t > now /\ now' = t
    /\ UNCHANGED <<event_obs, spam_buckets, spam_obs, utcnow, guild_settings,
                   settings_cache, warnings, next_warning_id, infractions, hs>>

\* the command gave thresholds and no expiration_days
ThresholdsOnly(h) == hs'[h].updates.warn_expiration_days = Null

NextSettings ==
    \/ Elapse
    \/ PolicyEmpty("h1")
    \/ PolicyBeginCached("h1") /\ ThresholdsOnly("h1")
    \/ PolicyBeginFetch("h1") /\ ThresholdsOnly("h1")
    \/ PolicyFetched("h1")
    \/ FetchFailed("h1")
    \/ PolicyUpdate("h1")
    \/ PolicySelect("h1")
    \/ Reset("h1")

SpecSettings == InitPolicy /\ [][NextSettings]_vars

\* _update_guild_settings of handler h returns in this step
UpdateReturns(h) == hs[h].pc = "policy_select" /\ hs'[h].pc = "done" /\ ~hs'[h].raised

\* the stored row carries every option the command gave
RowCarries(row, updates) ==
    /\ updates.warn_timeout_threshold # Null
       => row.warn_timeout_threshold = updates.warn_timeout_threshold[1]
    /\ updates.warn_ban_threshold # Null
       => row.warn_ban_threshold = updates.warn_ban_threshold[1]
    /\ updates.warn_expiration_days # Null
       => row.warn_expiration_days = updates.warn_expiration_days[1]

(* C22: when _update_guild_settings returns, the store has already been
   written (the row carries the given options and is not changed by the
   return), the cache entry has been replaced by the row read back, stamped
   with the present monotonic time, and the policy handed to the caller is
   that row; the entry is fresh, so a Get that follows at once is served
   from the cache. *)
C22_UpdateWritesThrough ==
    [][\A h \in Handlers :
          UpdateReturns(h)
          => LET g == hs[h].guild IN
             /\ guild_settings' = guild_settings
             /\ RowCarries(guild_settings[g], hs[h].updates)
             /\ settings_cache'[g] =
                    [cached |-> TRUE, at |-> now, settings |-> guild_settings[g]]
             /\ hs'[h].settings = guild_settings[g]
             /\ now' - settings_cache'[g].at <= SETTINGS_CACHE_TTL
      ]_vars

\* an update that changed the ban threshold has returned after the entry it
\* found had gone stale: the entry is the stored row, stamped with the
\* present time
C22_Witness ==
    \E h \in Handlers :
        LET r == hs[h]
            g == r.guild
        IN  /\ r.kind = "policy" /\ r.pc = "done" /\ r.sent = {"reply"} /\ ~r.raised
            /\ r.updates.warn_ban_threshold # Null
            /\ r.updates.warn_timeout_threshold = Null
            /\ now = SETTINGS_CACHE_TTL + 1
            /\ settings_cache[g] = [cached |-> TRUE, at |-> now, settings |-> guild_settings[g]]
            /\ guild_settings[g].warn_ban_threshold = r.updates.warn_ban_threshold[1]

\* a command of handler h that gave an option calls _get_guild_settings
GetBegins(h) == hs[h].pc = "idle" /\ hs'[h].kind = "policy" /\ hs'[h].updates # NoOptions

\* the store answers the _get_guild_settings of handler h
GetFetched(h) ==
    hs[h].pc = "fetch_settings" /\ hs'[h].pc # "fetch_settings" /\ ~hs'[h].raised

(* C23: _get_guild_settings hands out the cached settings, without awaiting
   the store and without touching the entry, when there is an entry at most
   30 seconds old; otherwise it awaits the store, and when the store answers
   it caches the stored row under the time it read on entry and hands that
   row out. *)
C23_GetServesFreshEntry ==
    [][\A h \in Handlers :
          /\ GetBegins(h)
             => LET entry == settings_cache[hs'[h].guild]
                IN  IF entry.cached /\ now - entry.at <= 30
                    THEN /\ hs'[h].pc # "fetch_settings"
                         /\ hs'[h].settings = entry.settings
                         /\ settings_cache' = settings_cache
                    ELSE /\ hs'[h].pc = "fetch_settings"
                         /\ hs'[h].t0 = now
                         /\ settings_cache' = settings_cache
          /\ GetFetched(h)
             => LET g == hs[h].guild IN
                /\ hs'[h].settings = guild_settings[g]
                /\ settings_cache'[g] =
                       [cached |-> TRUE, at |-> hs[h].t0, settings |-> guild_settings[g]]
      ]_vars

\* an entry exactly 30 seconds old that no longer matches the stored row is
\* handed out as it is
C23_Witness ==
    \E h \in Handlers :
        LET r == hs[h]
            entry == settings_cache[r.guild]
        IN  /\ r.kind = "policy" /\ r.pc = "policy_update"
            /\ entry.cached /\ now - entry.at = SETTINGS_CACHE_TTL
            /\ r.settings = entry.settings
            /\ entry.settings # guild_settings[r.guild]

----------------------------------------------------------------------------
(* Calls of _update_guild_settings with known and unknown fields *)

NextUpdate ==
    \/ UpdateBegin("h1")
    \/ UpdateEnsure("h1")
    \/ PolicyUpdate("h1")
    \/ PolicySelect("h1")
    \/ Reset("h1")

SpecUpdate == InitPolicy /\ [][NextUpdate]_vars

(* C24: a call of _update_guild_settings that names an unknown field ends
   with an exception, and no step of it changes the stored row or the cache
   entry, whether or not it names known fields as well. *)
C24_UnknownFieldRejected ==
    /\ [](\A h \in Handlers :
            hs[h].unknown_field
            => /\ hs[h].pc \in {"ensure", "done"}
               /\ hs[h].pc = "done" => hs[h].raised)
    /\ [][\A h \in Handlers :
            (hs[h].unknown_field \/ hs'[h].unknown_field)
            => (guild_settings' = guild_settings /\ settings_cache' = settings_cache)
       ]_vars

\* a call naming an unknown field next to warn_ban_threshold has raised; the
\* stored ban threshold is not the one it gave
C24_Witness ==
    \E h \in Handlers :
        /\ hs[h].unknown_field /\ hs[h].pc = "done" /\ hs[h].raised
        /\ hs[h].updates.warn_ban_threshold # Null
        /\ guild_settings[hs[h].guild].warn_ban_threshold
               # hs[h].updates.warn_ban_threshold[1]
        /\ settings_cache[hs[h].guild].cached

----------------------------------------------------------------------------
(* Failures of the store and of the platform inside one event *)

(* C25 as stated: when add_warning fails, at its INSERT or at the count
   select after it, the caller gets the exception and the ledger holds no row
   of that call. *)
C25_FailedAddLeavesNoRow ==
    \A h \in Handlers :
        hs[h].add = "failed"
        => /\ hs[h].raised
           /\ ~\E w \in warnings : w.id = hs[h].warning_id

\* the audit entry of the warning a run registered is in the log
WarnEntryLogged(rec) ==
    \E i \in 1..Len(infractions) :
        /\ infractions[i].action = "warn"
        /\ infractions[i].related_warning_id = rec.warning_id
        /\ infractions[i].user = rec.user

(* C26: when the ban or the timeout of the escalation is rejected, the
   rejection is returned as the escalation status and the event goes on; the
   row of the warning is still in the ledger, its 'warn' audit entry (when it
   was written) is still in the log, and the counts returned by add_warning
   are those of the ledger with that row. *)
C26_RejectedActionKeepsWarning ==
    \A h \in Handlers :
        LET r == hs[h] IN
        r.escalation \in {"ban_failed", "timeout_failed"}
        => /\ ~r.raised /\ r.evaluated = "returned"
           /\ r.pc \in {"notice", "modlog", "done"}
           /\ Len(r.calls) = 1 /\ ~r.calls[1].ok
           /\ \E w \in warnings :
                  w.id = r.warning_id /\ w.guild = r.guild /\ w.user = r.user
           /\ "warn" \in r.audit_logged => WarnEntryLogged(r)
           /\ r.total = Cardinality({w \in warnings : w.guild = r.guild /\ w.user = r.user})
           /\ r.active >= 1

\* the ban was rejected and the event has ended with the warning and its
\* audit entry on record
C26_Witness ==
    \E h \in Handlers :
        LET r == hs[h] IN
        /\ r.escalation = "ban_failed" /\ r.pc = "done"
        /\ "warn" \in r.audit_logged /\ WarnEntryLogged(r)
        /\ \E w \in warnings : w.id = r.warning_id
        /\ r.total = MaxInitWarnings + 1

(* C27: when _can_bot_moderate_member is false for the target (the bot's
   member is unknown, the target owns the guild, or the target's top role is
   not below the bot's), _apply_warn_escalation makes no restriction call and
   writes no escalation audit entry, and returns: the status names the
   missing hierarchy when a threshold was met (or the administrator skip of
   the timeout), and is empty otherwise. *)
C27_NoHierarchyNoCall ==
    \A h \in Handlers :
        LET r == hs[h] IN
        (r.evaluated # "no" /\ ~r.target_below_bot)
        => /\ r.evaluated = "returned" /\ ~r.raised
           /\ r.calls = <<>>
           /\ (r.audit_logged \cup r.audit_failed) \cap EscalationTags = {}
           /\ \A i \in 1..Len(infractions) : infractions[i].action \notin EscalationTags
           /\ r.escalation =
                  IF BanMet(r) THEN "ban_no_hierarchy"
                  ELSE IF TimeoutMet(r)
                  THEN IF r.target_admin THEN "timeout_skipped_admin"
                       ELSE "timeout_no_hierarchy"
                  ELSE None

\* the ban threshold was met for a target the bot cannot moderate; the event
\* ended with the explanatory status
C27_Witness ==
    \E h \in Handlers :
        LET r == hs[h] IN
        /\ r.evaluated = "returned" /\ ~r.target_below_bot /\ BanMet(r)
        /\ r.escalation = "ban_no_hierarchy" /\ r.pc = "done"
        /\ r.calls = <<>>


(* C28: _apply_warn_escalation never ends in an exception: whatever the
   hierarchy and however member.ban or member.edit ends (done, rejected, or
   an error or timeout of the connection), the function returns a status and
   the handler that called it goes on. *)
C28_EvaluateNeverRaises ==
    \A h \in Handlers :
        LET r == hs[h] IN
        /\ r.evaluated # "raised"
        /\ (r.evaluated # "no" /\ r.pc = "done") => (r.evaluated = "returned" /\ ~r.raised)

----------------------------------------------------------------------------
(* The audit log over warnings and clears *)

(* C29: the infractions table is append-only. Every step of the subsystem,
   the DELETE of /clearwarnings included, leaves each entry of the log where
   and as it was: the log after the step starts with the log before it. *)
C29_InfractionLogAppendOnly ==
    [][/\ Len(infractions') >= Len(infractions)
       /\ SubSeq(infractions', 1, Len(infractions)) = infractions]_vars

\* /clearwarnings has removed the rows of a member and logged itself; the
\* 'warn' entry of a removed row is still in the log, ahead of the entry of
\* the clear
C29_Witness ==
    \E h \in Handlers :
        /\ hs[h].kind = "clear" /\ hs[h].pc = "done" /\ hs[h].removed > 0
        /\ \E i, j \in 1..Len(infractions) :
               /\ i < j
               /\ infractions[i].action = "warn"
               /\ infractions[i].user = hs[h].user
               /\ \A w \in warnings : w.id # infractions[i].related_warning_id
               /\ infractions[j].action = "clearwarnings"
               /\ infractions[j].user = hs[h].user

----------------------------------------------------------------------------
(* The bucket map over a long run: members who post and then fall silent *)

\* Messages reach the detector while time.monotonic() advances far past
\* every interval.
NextSweep ==
    \/ Elapse
    \/ \E k \in Keys, raw_max \in 1..MaxRawSpamMax, raw_interval \in 0..MaxRawInterval :
           Record(k, raw_max, raw_interval)

\* The cog keeps running: the clock advances and messages keep arriving.
SpecSweep == InitSpam /\ [][NextSweep]_vars /\ WF_vars(NextSweep)

SweepWidths == 2

\* the bucket of the key holds timestamps, the most recent of them more than
\* SweepWidths widest intervals old
StaleKey(k) ==
    LET bucket == spam_buckets[k] IN
    /\ bucket # <<>>
    /\ now - bucket[Len(bucket)] > SweepWidths * WidestInterval

(* C30: the bucket map does not keep the keys of silent members: a key whose
   most recent timestamp is more than several interval-widths old is
   eventually swept, after which its bucket holds nothing. *)
C30_StaleKeysAreSwept ==
    \A k \in Keys : StaleKey(k) ~> (spam_buckets[k] = <<>>)

----------------------------------------------------------------------------
(* The size of a bucket and the floors of the spam settings *)

(* C31: after a call of _is_spam_violation the bucket of its key holds fewer
   timestamps than the max_messages that call used (the configured value
   raised to the floor), whatever the values earlier calls of the key ran
   under. *)
C31_BucketBelowMaxMessages ==
    \A k \in Keys :
        spam_obs[k].max > 0 => Len(spam_buckets[k]) < spam_obs[k].max

\* the key was called under a smaller max_messages than the timestamps it
\* held allowed for: the call found more than max_messages in the window,
\* tripped and left the bucket empty
C31_Witness ==
    \E k \in Keys :
        LET o == spam_obs[k] IN
        /\ o.result /\ o.in_window > o.max
        /\ spam_buckets[k] = <<>>

\* Values of automod_spam_max_messages and automod_spam_interval_seconds
\* below the floors (the columns are INT UNSIGNED).
BelowFloorMax == {0, 1}
BelowFloorInterval == {0}

\* Every message is screened under settings below the floors.
NextFloor ==
    \/ Tick
    \/ \E k \in Keys, raw_max \in BelowFloorMax, raw_interval \in BelowFloorInterval :
           Record(k, raw_max, raw_interval)

SpecFloor == InitSpam /\ [][NextFloor]_vars

(* C32: spam settings below the floors are clamped. A call under a
   max_messages below 2 and an interval below 1 leaves the bucket and returns
   the value that the call under max_messages = 2 and interval = 1 leaves and
   returns; in particular a message with no other of its key within one
   second does not trip. *)
C32_BelowFloorIsClamped ==
    [][\A k \in Keys, raw_max \in BelowFloorMax, raw_interval \in BelowFloorInterval :
           Record(k, raw_max, raw_interval)
           => LET floor == IsSpamViolation(spam_buckets[k], now, 2, 1)
                  alone == \A i \in 1..Len(spam_buckets[k]) : now - spam_buckets[k][i] > 1
              IN  /\ spam_buckets'[k] = floor.bucket
                  /\ spam_obs'[k].result = floor.violation
                  /\ alone => (~spam_obs'[k].result /\ spam_buckets'[k] = <<now>>)
                  /\ ~alone => (spam_obs'[k].result /\ spam_buckets'[k] = <<>>)]_vars

\* the second message of a key within one second has tripped, the limit
\* used being the floor, after an earlier message of the key had aged out
C32_Witness ==
    \E k \in Keys :
        LET o == spam_obs[k] IN
        /\ o.result /\ o.max = 2 /\ o.in_window = 2
        /\ o.run_first = 1 /\ o.run_last = 2 /\ o.run_interval = 1
        /\ spam_buckets[k] = <<>>

----------------------------------------------------------------------------
(* _get_guild_settings with its store call in two steps: the SELECT runs in
   the store, and later the coroutine resumes with its result *)

\* WarnStore.get_guild_settings: the store executes the SELECT; the coroutine
\* of _get_guild_settings is still suspended
FetchSelect(h) ==
    /\ hs[h].pc = "fetch_settings" /\ hs[h].kind = "policy"
    /\ hs' = [hs EXCEPT ![h].settings = guild_settings[hs[h].guild],
                        ![h].pc = "fetch_answered"]
    /\ UNCHANGED <<event_obs, now, spam_buckets, spam_obs, utcnow, guild_settings,
                   settings_cache, warnings, next_warning_id, infractions>>

\* _get_guild_settings resumes: "self._settings_cache[guild_id] = (now, settings)"
\* with the time and the row it holds, then setwarnpolicy checks the thresholds
PolicyResumed(h) ==
    /\ hs[h].pc = "fetch_answered"
    /\ settings_cache' = [settings_cache EXCEPT ![hs[h].guild] =
           [cached |-> TRUE, at |-> hs[h].t0, settings |-> hs[h].settings]]
    /\ hs' = [hs EXCEPT ![h] = PolicyCheck(hs[h], hs[h].settings)]
    /\ UNCHANGED <<event_obs, now, spam_buckets, spam_obs, utcnow, guild_settings, warnings,
                   next_warning_id, infractions>>

\* the store answered the call
StoreAnswered(h) == ~hs'[h].raised

\* Two /setwarnpolicy commands on thresholds, the store never failing.
StepStale(h) ==
    \/ PolicyBeginCached(h) /\ ThresholdsOnly(h)
    \/ PolicyBeginFetch(h) /\ ThresholdsOnly(h)
    \/ FetchSelect(h)
    \/ PolicyResumed(h)
    \/ PolicyUpdate(h) /\ StoreAnswered(h)
    \/ PolicySelect(h) /\ StoreAnswered(h)

NextStale == \E h \in Handlers : StepStale(h)

SpecStale == InitPolicy /\ [][NextStale]_vars

(* C33: a _get_guild_settings call that starts after an update has completed
   returns the row as that update left it. Whenever no update of the guild is
   between its UPDATE and its cache write, the entry a call starting now would
   be served from the cache is the stored row. *)
C33_GetAfterUpdateIsCurrent ==
    \A g \in Guilds :
        (/\ CacheFresh(settings_cache[g], now)
         /\ \A h \in Handlers : ~(hs[h].guild = g /\ hs[h].pc = "policy_select"))
        => settings_cache[g].settings = guild_settings[g]

----------------------------------------------------------------------------
(* The branches of _apply_warn_escalation, one warning event at a time *)

(* C34: once the active warnings reach a ban threshold above zero, the
   timeout is out of the question. No timeout call is made or pending and no
   timeout audit entry is written; a ban that is not made for lack of
   hierarchy returns "ban_no_hierarchy" with no call at all, and a ban that
   is rejected returns "ban_failed" with the ban as the only call, whether or
   not the timeout threshold is met as well. *)
C34_BanFailureNoTimeoutFallback ==
    \A h \in Handlers :
        LET r == hs[h]
            ban == r.settings.warn_ban_threshold
        IN  (r.evaluated # "no" /\ ban > 0 /\ r.eval_active >= ban)
            => /\ \A i \in 1..Len(r.calls) : r.calls[i].kind = "ban"
               /\ r.pc \notin {"timeout_call", "log_timeout"}
               /\ r.until = Null
               /\ "auto_timeout_warns" \notin (r.audit_logged \cup r.audit_failed)
               /\ (r.evaluated = "returned" /\ ~r.target_below_bot)
                  => (r.calls = <<>> /\ r.escalation = "ban_no_hierarchy")
               /\ (r.evaluated = "returned" /\ r.calls = <<[kind |-> "ban", ok |-> FALSE]>>)
                  => r.escalation = "ban_failed"

\* the ban was due for a member the bot does not out-rank, who is no
\* administrator and has also reached the timeout threshold; the event ended
\* without any call
C34_Witness ==
    \E h \in Handlers :
        LET r == hs[h] IN
        /\ r.pc = "done" /\ r.escalation = "ban_no_hierarchy"
        /\ r.settings.warn_timeout_threshold > 0
        /\ r.eval_active >= r.settings.warn_timeout_threshold
        /\ ~r.target_admin
        /\ r.calls = <<>> /\ r.until = Null
(* C35: no timeout is attempted against an administrator. For a target with
   guild_permissions.administrator no member.edit is called or pending and no
   timeout audit entry is written; when the timeout check is the one that
   triggers (the ban check did not), _apply_warn_escalation returns at once
   with the status "timeout_skipped_admin", having made no restriction call
   and written no escalation audit entry. *)
C35_AdministratorNeverTimedOut ==
    \A h \in Handlers :
        LET r == hs[h]
            ban == r.settings.warn_ban_threshold
            timeout == r.settings.warn_timeout_threshold
        IN  (r.evaluated # "no" /\ r.target_admin)
            => /\ \A i \in 1..Len(r.calls) : r.calls[i].kind # "timeout"
               /\ r.pc \notin {"timeout_call", "log_timeout"}
               /\ r.until = Null
               /\ "auto_timeout_warns" \notin (r.audit_logged \cup r.audit_failed)
               /\ (timeout > 0 /\ r.eval_active >= timeout
                      /\ ~(ban > 0 /\ r.eval_active >= ban))
                  => /\ r.evaluated = "returned"
                     /\ r.calls = <<>>
                     /\ r.escalation = "timeout_skipped_admin"
                     /\ (r.audit_logged \cup r.audit_failed) \cap EscalationTags = {}
                     /\ \A i \in 1..Len(infractions) :
                            infractions[i].action \notin EscalationTags

\* an automatic warning took an administrator below the bot to the timeout
\* threshold; the event ended with the skip and the mod-log message
C35_Witness ==
    \E h \in Handlers :
        LET r == hs[h] IN
        /\ r.kind = "msg" /\ r.pc = "done"
        /\ r.target_admin /\ r.target_below_bot
        /\ r.eval_active = r.settings.warn_timeout_threshold
        /\ r.escalation = "timeout_skipped_admin"
        /\ r.calls = <<>>
        /\ "modlog" \in r.sent
\* the entries of the log with the given tag
Entries(tag) == {i \in 1..Len(infractions) : infractions[i].action = tag}

\* _safe_log_infraction was called with the tag, whether or not the store
\* took the entry
LogCalled(rec, tag) == tag \in (rec.audit_logged \cup rec.audit_failed)

Succeeded(rec, kind) == [kind |-> kind, ok |-> TRUE] \in {rec.calls[i] : i \in 1..Len(rec.calls)}

(* C36: the escalation audit entry goes with the success of the restriction
   call and follows it. _safe_log_infraction is called with auto_ban_warns
   only once member.ban has succeeded and with auto_timeout_warns only once
   member.edit has succeeded, and by the time _apply_warn_escalation returns
   it has been called exactly for the call that succeeded: never after a
   rejected call or a return without a call. The log holds one entry of the
   tag when the store took it (none when the write failed): the ban entry
   without expiration, the timeout entry expiring at the end of the timeout
   handed to member.edit. *)
C36_EscalationEntryIffCallSucceeded ==
    \A h \in Handlers :
        LET r == hs[h] IN
        /\ LogCalled(r, "auto_ban_warns") => Succeeded(r, "ban")
        /\ LogCalled(r, "auto_timeout_warns") => Succeeded(r, "timeout")
        /\ r.evaluated = "returned"
           => /\ Succeeded(r, "ban") => LogCalled(r, "auto_ban_warns")
              /\ Succeeded(r, "timeout") => LogCalled(r, "auto_timeout_warns")
        /\ r.evaluated # "no"
           => /\ Cardinality(Entries("auto_ban_warns"))
                    = (IF "auto_ban_warns" \in r.audit_logged THEN 1 ELSE 0)
              /\ Cardinality(Entries("auto_timeout_warns"))
                    = (IF "auto_timeout_warns" \in r.audit_logged THEN 1 ELSE 0)
              /\ \A i \in Entries("auto_ban_warns") :
                     infractions[i].expires_at = Null /\ infractions[i].user = r.user
              /\ \A i \in Entries("auto_timeout_warns") :
                     /\ r.until # Null
                     /\ infractions[i].expires_at = r.until
                     /\ infractions[i].user = r.user
        /\ r.evaluated = "no" => ~LogCalled(r, "auto_ban_warns") /\ ~LogCalled(r, "auto_timeout_warns")

\* the timeout was made and its entry, expiring at the end of the timeout,
\* is the last of the log
C36_Witness ==
    \E h \in Handlers :
        LET r == hs[h] IN
        /\ r.pc = "done" /\ r.escalation = "timeout_applied"
        /\ r.calls = <<[kind |-> "timeout", ok |-> TRUE]>>
        /\ r.until # Null
        /\ infractions # <<>>
        /\ infractions[Len(infractions)].action = "auto_timeout_warns"
        /\ infractions[Len(infractions)].expires_at = r.until
        /\ Entries("auto_ban_warns") = {}

----------------------------------------------------------------------------
(* Two warning events of one member, interleaved at the awaits of the store *)

(* C37: warning events of the same member never return the same total from
   add_warning. With no /clearwarnings among the events, the totals of N
   events are N different numbers (each new row is counted by one event
   first), so two events whose add_warning has returned hold different
   totals. *)
C37_TotalsAreDistinct ==
    \A a, b \in Handlers :
        (/\ a # b
         /\ hs[a].kind \in {"msg", "warn"} /\ hs[b].kind \in {"msg", "warn"}
         /\ hs[a].guild = hs[b].guild /\ hs[a].user = hs[b].user
         /\ hs[a].add = "ok" /\ hs[b].add = "ok")
        => hs[a].total # hs[b].total

----------------------------------------------------------------------------
(* Warnings of one member above the timeout threshold *)

(* C38: the timeout is due at every warning at or above the threshold, not
   only at the one that crosses it. Whenever _apply_warn_escalation has
   returned for a count of active warnings at or above a timeout threshold
   above zero, the ban check not triggering, and the target is no
   administrator and below the bot, it has called member.edit, once, whatever
   earlier events of the member did. *)
C38_TimeoutAtEveryWarningAbove ==
    \A h \in Handlers :
        LET r == hs[h]
            ban == r.settings.warn_ban_threshold
            timeout == r.settings.warn_timeout_threshold
        IN  (/\ r.evaluated = "returned"
             /\ timeout > 0 /\ r.eval_active >= timeout
             /\ ~(ban > 0 /\ r.eval_active >= ban)
             /\ ~r.target_admin /\ r.target_below_bot)
            => /\ Len(r.calls) = 1 /\ r.calls[1].kind = "timeout"
               /\ r.until # Null
               /\ r.escalation \in {"timeout_applied", "timeout_failed"}

\* the member was timed out at the threshold and, by the next warning, with
\* one active warning more, a second time: the log holds both entries
C38_Witness ==
    \E h \in Handlers :
        LET r == hs[h] IN
        /\ r.pc = "done" /\ r.escalation = "timeout_applied"
        /\ r.eval_active = r.settings.warn_timeout_threshold + 1
        /\ \E i, j \in 1..Len(infractions) :
               /\ i < j
               /\ infractions[i].action = "auto_timeout_warns"
               /\ infractions[j].action = "auto_timeout_warns"
               /\ infractions[i].user = r.user /\ infractions[j].user = r.user

----------------------------------------------------------------------------
(* What the spam window takes from messages caught by another rule *)

(* C39: a message that on_message classifies as a link or a mention-flood
   violation, or that it screens while automod_enabled is off, leaves the
   bucket of its key as it was: _is_spam_violation is not called for it, so
   it is not among the timestamps a later message is counted with. *)
C39_OtherViolationsNotRecorded ==
    LET o == event_obs.screen IN
    (o.valid /\ (o.action \in {"automod_link", "automod_mention_flood"} \/ ~o.enabled))
    => ~o.wrote

\* with the spam rule on and one timestamp short of a trip in the bucket, a
\* message with a link was classified as a link violation; the bucket still
\* holds that one timestamp
C39_Witness ==
    LET o == event_obs.screen IN
    /\ o.valid /\ o.enabled /\ o.spam_on
    /\ o.action = "automod_link"
    /\ o.matches = {"automod_link", "automod_spam"}
    /\ ~o.wrote
    /\ Len(spam_buckets[o.key]) = SpamMaxFloor - 1

----------------------------------------------------------------------------
(* on_message after a failure of add_warning *)

(* C40: when add_warning fails in on_message after a rule has matched, the
   event ends there and what was done stands. The removal of the message is
   never taken back; the rule entry, when the log took it, is in the log with
   no warning attached; no 'warn' entry and no escalation entry is written,
   _apply_warn_escalation is not called, no restriction call is made and
   neither the notice nor the mod-log message is sent; and when it was the
   INSERT that failed, the event has added no row to the ledger. *)
C40_FailedLedgerWriteEndsEvent ==
    /\ [](\A h \in Handlers :
            LET r == hs[h] IN
            (r.kind = "msg" /\ r.add = "failed")
            => /\ r.pc = "done"
               /\ r.deleted \in {"yes", "no"}
               /\ r.action \in (r.audit_logged \cup r.audit_failed)
               /\ r.action \in r.audit_logged
                  => \E i \in 1..Len(infractions) :
                         /\ infractions[i].action = r.action
                         /\ infractions[i].user = r.user
                         /\ infractions[i].related_warning_id = 0
               /\ ~LogCalled(r, "warn")
               /\ Entries("warn") = {}
               /\ Entries("auto_ban_warns") \cup Entries("auto_timeout_warns") = {}
               /\ r.evaluated = "no" /\ r.calls = <<>> /\ r.escalation = None
               /\ r.sent = {}
               /\ r.warning_id = 0
                  => (event_obs.made = {} /\ \A w \in warnings : w.id < next_warning_id
                      /\ event_obs.inserted[<<r.guild, r.user>>] = 0))
    /\ [][\A h \in Handlers :
            hs[h].deleted = "yes" => hs'[h].deleted = "yes"]_vars

\* the message was removed and its rule entry logged, then the INSERT
\* failed: the event is over with nothing sent and no row added
C40_Witness ==
    \E h \in Handlers :
        LET r == hs[h] IN
        /\ r.kind = "msg" /\ r.add = "failed" /\ r.warning_id = 0
        /\ r.pc = "done" /\ r.deleted = "yes"
        /\ r.action \in r.audit_logged
        /\ Len(infractions) = 1 /\ infractions[1].action = r.action
        /\ event_obs.made = {}
        /\ r.sent = {}

=============================================================================
